---------------------------- MODULE Spec2Model ----------------------------
(***************************************************************************)
(* A model of the rust-png codec: the scanline filters, the Adam7          *)
(* interlace geometry, the chunk container with its CRC, the palette       *)
(* lookup and the encode / decode pipelines.                               *)
(*                                                                         *)
(* Buffers are sequences of bytes (0..255).  Rust indexes from 0, TLA+     *)
(* sequences from 1: At(s, i) reads the byte the source calls s[i].        *)
(* Each part of the program has its own variables and its own              *)
(* specification; a specification leaves the other parts' variables at     *)
(* their idle values.                                                      *)
(***************************************************************************)
EXTENDS Integers, Sequences, FiniteSets, Bags, TLC

VARIABLES
    \* paeth predictor call: the three neighbour bytes and the two results
    pa, pb, pc, pres, pres_std,
    \* filter engine: the buffer being filtered in place, its original
    \* contents, the call's context and how far the call sequence has got
    fdata, forig, fctx, fstage, ferr,
    \* interlace engine: the image (width, height, bytes per pixel, bytes),
    \* the pass list of get_interlace_passes, the pass buffers of
    \* interlace_image, the image rebuilt by deinterlace_passes
    iw, ih, ibpp, iimg, ipassinfo, ipasses, irecon, istage,
    \* chunk container: the chunks written, the byte stream, the bit inverted
    \* in it, the parser object and the result of its parse
    cchunks, cstream, cflip, cparser, cresult, cstage,
    \* pixel mapping: the Bitmapper, the input pixels, the results of
    \* map_pixels, de_palette and convert_to_rgba on them
    bm, bdata, bmapped, bdepal, brgba,
    \* one pack call and the parse of its result: the options and pixel
    \* buffer, the local output buffer of pack, the compressed scanlines,
    \* what pack returned, the PNG object parsing and what parse returned
    koptions, kdata, koutput, kprocessed, kresult, kpng, kparse, kstage,
    \* a compressed scanline stream carried in IDAT chunks of one size and
    \* inflated by a ChunkedInflate: the scanline bytes, the chunk size, the
    \* compressed stream, the chunks written, the read position in them, the
    \* ChunkedInflate, what inflate_all returned
    zdata, zsize, zstream, zoutput, zoffset, zinflate, zresult, zstage,
    \* one sample rescaled to 8 bits: its bit depth and value, whether the
    \* build checks integer overflow, the results of scale_pixel_value and
    \* scale_depth
    sdepth, svalue, schecks, spixel, sscaled,
    \* one RGB or RGBA pixel converted to greyscale: its bit depth, whether it
    \* has an alpha sample, its bytes, the results of the two conversions
    gdepth, galpha, gpixel, gadv, gconv,
    \* one buffer of pixels converted from a colour type to another: the
    \* FormatNormalizer, the pixel bytes, the image width, the results of
    \* convert_color_type and of bitmap's convert_to_rgba
    nself, ndata, nwidth, nresult, nrgba,
    \* an AdvancedInflate called again and again: the object, the calls made
    \* so far, the function and input of the last call and what it returned
    aself, acount, afn, ainput, aresult,
    \* an ErrorHandler and the operation handed to it: the handler, what each
    \* run of the operation returns, the runs made by the last call and what
    \* the call returned
    hself, hoperation, hruns, hresult,
    \* an image size and the interlace statistics computed for it
    tw, th, tstats,
    \* rows handed to the FilterPacker and, behind a filter-type byte each, to
    \* the FilterUnpacker: the shape, the rows, the filter types, the results
    qwidth, qheight, qbpp, qdata, qtypes, qpacked, qunpacked,
    \* a buffer filtered by the worker threads of apply_parallel: the buffer
    \* and its first contents, the filter and shape, the thread count, each
    \* worker's rows and position, the channel, who wrote each byte, the
    \* caller's position and result; and what process_filters_parallel returns
    rdata, rorig, rctx, rthreads, rworkers, rchannel, rwriters, rstage, rresult, rpacked,
    \* a ChunkStream and its processing threads: the queue of buffers, the
    \* buffered count, the pending read requests, the paused flag, the bag of
    \* the running threads' positions and local data; and, for the record, the bytes written,
    \* the reads issued and the data handed to the callbacks, in call order
    ubuffers, ubuffered, ureads, upaused, uthreads, uwritten, uissued, uresumes,
    udelivered,
    \* a FilterCache: the cache, which of the two FilterCache types it is, its
    \* keys in the order they were inserted, the calls made, what the last call
    \* stored and removed
    xself, ximpl, xorder, xcount, xlast

paeth_vars     == <<pa, pb, pc, pres, pres_std>>
filter_vars    == <<fdata, forig, fctx, fstage, ferr>>
interlace_vars == <<iw, ih, ibpp, iimg, ipassinfo, ipasses, irecon, istage>>
chunk_vars     == <<cchunks, cstream, cflip, cparser, cresult, cstage>>
map_vars       == <<bm, bdata, bmapped, bdepal, brgba>>
codec_vars     == <<koptions, kdata, koutput, kprocessed, kresult, kpng, kparse, kstage>>
idat_vars      == <<zdata, zsize, zstream, zoutput, zoffset, zinflate, zresult, zstage>>
scale_vars     == <<sdepth, svalue, schecks, spixel, sscaled>>
gray_vars      == <<gdepth, galpha, gpixel, gadv, gconv>>
norm_vars      == <<nself, ndata, nwidth, nresult, nrgba>>
adv_vars       == <<aself, acount, afn, ainput, aresult>>
handler_vars   == <<hself, hoperation, hruns, hresult>>
stats_vars     == <<tw, th, tstats>>
fpack_vars     == <<qwidth, qheight, qbpp, qdata, qtypes, qpacked, qunpacked>>
par_vars       == <<rdata, rorig, rctx, rthreads, rworkers, rchannel, rwriters, rstage, rresult, rpacked>>
stream_vars    == <<ubuffers, ubuffered, ureads, upaused, uthreads, uwritten, uissued, uresumes, udelivered>>
cache_vars     == <<xself, ximpl, xorder, xcount, xlast>>
vars == <<paeth_vars, filter_vars, interlace_vars, chunk_vars, map_vars, codec_vars, idat_vars, scale_vars, gray_vars, norm_vars, adv_vars, handler_vars, stats_vars, fpack_vars, par_vars, stream_vars, cache_vars>>

---------------------------------------------------------------------------
(* Bytes and sequences *)

Byte == 0..255

At(s, i) == s[i + 1]

\* u8::wrapping_add / u8::wrapping_sub
wrapping_add(a, b) == (a + b) % 256
wrapping_sub(a, b) == (a - b + 256) % 256

Abs(n) == IF n < 0 THEN -n ELSE n

\* data[from..to] of a Rust slice (to exclusive), 0-based
Slice(s, from, to) == [i \in 1..(to - from) |-> s[from + i]]

\* s with its 0-based position i set to v
Put(s, i, v) == [s EXCEPT ![i + 1] = v]

---------------------------------------------------------------------------
(* Constants of src/src/constants.rs *)

FILTER_NONE    == 0
FILTER_SUB     == 1
FILTER_UP      == 2
FILTER_AVERAGE == 3
FILTER_PAETH   == 4

FilterTypes == {FILTER_NONE, FILTER_SUB, FILTER_UP, FILTER_AVERAGE, FILTER_PAETH}

---------------------------------------------------------------------------
(* Paeth predictor *)

\* A mutation of the predictor: c wins a tie against a.
paeth_predictor_tie_c(a, b, c) ==
    LET p   == a + b - c
        pa_ == Abs(p - a)
        pb_ == Abs(p - b)
        pc_ == Abs(p - c)
    IN  IF pa_ <= pb_ /\ pa_ < pc_ THEN a
        ELSE IF pb_ <= pc_ THEN b
        ELSE c

\* filter.rs: i16 arithmetic, a + b - c lies in -255..510, no overflow
paeth_predictor(a, b, c) ==
    LET p   == a + b - c
        pa_ == Abs(p - a)
        pb_ == Abs(p - b)
        pc_ == Abs(p - c)
    IN  IF pa_ <= pb_ /\ pa_ <= pc_ THEN a
        ELSE IF pb_ <= pc_ THEN b
        ELSE c

\* filter_extensible.rs: the same function, as a method of StandardFilter
StandardFilter_paeth_predictor(a, b, c) ==
    LET p   == a + b - c
        pa_ == Abs(p - a)
        pb_ == Abs(p - b)
        pc_ == Abs(p - c)
    IN  IF pa_ <= pb_ /\ pa_ <= pc_ THEN a
        ELSE IF pb_ <= pc_ THEN b
        ELSE c

\* The bytes the predictor is tried on: both ends of the byte range.
MaxPaethSample == 3
PaethBytes == (0..MaxPaethSample) \cup ((255 - MaxPaethSample)..255)

\* not a byte: the call has not returned yet
NoResult == 0 - 1

PaethIdle ==
    /\ pa = 0 /\ pb = 0 /\ pc = 0
    /\ pres = NoResult /\ pres_std = NoResult

PaethInit ==
    /\ pa \in PaethBytes /\ pb \in PaethBytes /\ pc \in PaethBytes
    /\ pres = NoResult /\ pres_std = NoResult

PaethCall ==
    /\ pres = NoResult
    /\ pres' = paeth_predictor(pa, pb, pc)
    /\ pres_std' = StandardFilter_paeth_predictor(pa, pb, pc)
    /\ UNCHANGED <<pa, pb, pc>>

---------------------------------------------------------------------------
(* Filter engine: StandardFilter (filter_extensible.rs) works on the row   *)
(* context.row_index of the buffer; apply_filter / reverse_filter          *)
(* (filter.rs) work on every row of the buffer.  "apply" adds the          *)
(* predictor, "reverse" subtracts it; both change the buffer in place,     *)
(* from the first byte of the row to the last.                             *)

Ok(d)  == [ok |-> TRUE, data |-> d, err |-> ""]
Err(e) == [ok |-> FALSE, data |-> <<>>, err |-> e]

\* wrapping_add for sgn = 1 (apply), wrapping_sub for sgn = -1 (reverse)
Wrap(v, pred, sgn) == IF sgn = 1 THEN wrapping_add(v, pred) ELSE wrapping_sub(v, pred)

\* for x in bpp..bytes_per_row { row[x] = row[x] (+|-) row[x - bpp] }
RECURSIVE SubLoop(_, _, _, _, _, _)
SubLoop(data, rs, bpp, bpr, x, sgn) ==
    IF x >= bpr THEN data
    ELSE SubLoop(Put(data, rs + x, Wrap(At(data, rs + x), At(data, rs + x - bpp), sgn)),
                 rs, bpp, bpr, x + 1, sgn)

\* for x in 0..bytes_per_row { row[x] = row[x] (+|-) prev_row[x] }
UpLoop(data, rs, prs, bpr, sgn) ==
    [i \in 1..Len(data) |->
        IF i - 1 >= rs /\ i - 1 < rs + bpr
        THEN Wrap(data[i], At(data, prs + (i - 1 - rs)), sgn)
        ELSE data[i]]

\* the byte above position x of row ri, as StandardFilter reads it
UpByte(data, ri, bpr, x) ==
    IF ri > 0 /\ x < Len(data) - (ri - 1) * bpr
    THEN At(data, (ri - 1) * bpr + x) ELSE 0

UpLeftByte(data, ri, bpr, bpp, x) ==
    IF ri > 0 /\ x >= bpp /\ x < Len(data) - (ri - 1) * bpr
    THEN At(data, (ri - 1) * bpr + x - bpp) ELSE 0

\* left = row[x - bpp] is read from the row as changed so far
RECURSIVE AverageLoop(_, _, _, _, _, _)
AverageLoop(data, ri, bpp, bpr, x, sgn) ==
    IF x >= bpr THEN data
    ELSE LET rs      == ri * bpr
             left    == IF x >= bpp THEN At(data, rs + x - bpp) ELSE 0
             up      == UpByte(data, ri, bpr, x)
             average == ((left + up) \div 2) % 256
         IN  AverageLoop(Put(data, rs + x, Wrap(At(data, rs + x), average, sgn)),
                         ri, bpp, bpr, x + 1, sgn)

RECURSIVE PaethLoop(_, _, _, _, _, _)
PaethLoop(data, ri, bpp, bpr, x, sgn) ==
    IF x >= bpr THEN data
    ELSE LET rs        == ri * bpr
             left      == IF x >= bpp THEN At(data, rs + x - bpp) ELSE 0
             up        == UpByte(data, ri, bpr, x)
             up_left   == UpLeftByte(data, ri, bpr, bpp, x)
             predictor == StandardFilter_paeth_predictor(left, up, up_left)
         IN  PaethLoop(Put(data, rs + x, Wrap(At(data, rs + x), predictor, sgn)),
                       ri, bpp, bpr, x + 1, sgn)

RowOutOfBounds == "Row index out of bounds"

\* apply_sub_filter / reverse_sub_filter
sub_filter(data, ctx, sgn) ==
    LET bpr == ctx.width * ctx.bytes_per_pixel
        rs  == ctx.row_index * bpr
    IN  IF rs + bpr > Len(data) THEN Err(RowOutOfBounds)
        ELSE Ok(SubLoop(data, rs, ctx.bytes_per_pixel, bpr, ctx.bytes_per_pixel, sgn))

\* apply_up_filter / reverse_up_filter
up_filter(data, ctx, sgn) ==
    LET bpr == ctx.width * ctx.bytes_per_pixel
        rs  == ctx.row_index * bpr
        prs == (ctx.row_index - 1) * bpr
    IN  IF ctx.row_index = 0 THEN Ok(data)
        ELSE IF rs + bpr > Len(data) \/ prs + bpr > Len(data) THEN Err(RowOutOfBounds)
        ELSE Ok(UpLoop(data, rs, prs, bpr, sgn))

\* apply_average_filter / reverse_average_filter
average_filter(data, ctx, sgn) ==
    LET bpr == ctx.width * ctx.bytes_per_pixel
        rs  == ctx.row_index * bpr
    IN  IF rs + bpr > Len(data) THEN Err(RowOutOfBounds)
        ELSE Ok(AverageLoop(data, ctx.row_index, ctx.bytes_per_pixel, bpr, 0, sgn))

\* apply_paeth_filter / reverse_paeth_filter
paeth_filter(data, ctx, sgn) ==
    LET bpr == ctx.width * ctx.bytes_per_pixel
        rs  == ctx.row_index * bpr
    IN  IF rs + bpr > Len(data) THEN Err(RowOutOfBounds)
        ELSE Ok(PaethLoop(data, ctx.row_index, ctx.bytes_per_pixel, bpr, 0, sgn))

\* impl Filter for StandardFilter: apply (used when decoding) adds
StandardFilter_apply(ft, data, ctx) ==
    CASE ft = FILTER_NONE    -> Ok(data)
      [] ft = FILTER_SUB     -> sub_filter(data, ctx, 1)
      [] ft = FILTER_UP      -> up_filter(data, ctx, 1)
      [] ft = FILTER_AVERAGE -> average_filter(data, ctx, 1)
      [] ft = FILTER_PAETH   -> paeth_filter(data, ctx, 1)
      [] OTHER               -> Err("Unsupported filter type")

\* impl Filter for StandardFilter: reverse (used when encoding) subtracts
StandardFilter_reverse(ft, data, ctx) ==
    CASE ft = FILTER_NONE    -> Ok(data)
      [] ft = FILTER_SUB     -> sub_filter(data, ctx, -1)
      [] ft = FILTER_UP      -> up_filter(data, ctx, -1)
      [] ft = FILTER_AVERAGE -> average_filter(data, ctx, -1)
      [] ft = FILTER_PAETH   -> paeth_filter(data, ctx, -1)
      [] OTHER               -> Err("Unsupported filter type")

\* filter.rs: one row y of apply_filter (sgn = 1) / reverse_filter (sgn = -1)
FilterRow(ft, data, y, bpp, bpr, sgn) ==
    CASE ft = FILTER_SUB     -> SubLoop(data, y * bpr, bpp, bpr, bpp, sgn)
      [] ft = FILTER_UP      -> IF y > 0 THEN UpLoop(data, y * bpr, (y - 1) * bpr, bpr, sgn)
                                ELSE data
      [] ft = FILTER_AVERAGE -> AverageLoop(data, y, bpp, bpr, 0, sgn)
      [] ft = FILTER_PAETH   -> PaethLoop(data, y, bpp, bpr, 0, sgn)
      [] OTHER               -> data

\* for y in 0..(data.len() / bytes_per_row)
RECURSIVE FilterRows(_, _, _, _, _, _)
FilterRows(ft, data, y, bpp, bpr, sgn) ==
    IF y >= Len(data) \div bpr \/ y * bpr + bpr > Len(data) THEN data
    ELSE FilterRows(ft, FilterRow(ft, data, y, bpp, bpr, sgn), y + 1, bpp, bpr, sgn)

\* filter.rs apply_filter
apply_filter(ft, data, width, bpp) == FilterRows(ft, data, 0, bpp, width * bpp, 1)

\* filter.rs reverse_filter
reverse_filter(ft, data, width, bpp) == FilterRows(ft, data, 0, bpp, width * bpp, -1)

\* The filter calls tried: rows of at most MaxRowBytes bytes, one or two
\* rows in the buffer (the row filtered is the last one, the row before
\* it is its prior row), bytes from both ends of the byte range.
MaxRowBytes == 3
MaxFilterBpp == 2
FilterBytes == {0, 1, 255}
FilterImpls == {"StandardFilter", "filter.rs"}

FilterShapes ==
    {s \in [width : 1..MaxRowBytes, bytes_per_pixel : 1..MaxFilterBpp, rows : 1..2] :
        s.width * s.bytes_per_pixel <= MaxRowBytes}

FilterIdle ==
    /\ fdata = <<>> /\ forig = <<>>
    /\ fctx = [impl |-> "none"]
    /\ fstage = "idle" /\ ferr = ""

FilterInit ==
    /\ \E s \in FilterShapes, ft \in FilterTypes, im \in FilterImpls :
          /\ fctx = [impl |-> im, filter_type |-> ft, width |-> s.width,
                     bytes_per_pixel |-> s.bytes_per_pixel,
                     height |-> s.rows, row_index |-> s.rows - 1]
          /\ fdata \in [1..(s.rows * s.width * s.bytes_per_pixel) -> FilterBytes]
    /\ forig = fdata
    /\ fstage = "start" /\ ferr = ""

\* what one call of the implementation under test does to the buffer
FilterCall(op) ==
    IF fctx.impl = "StandardFilter"
    THEN IF op = "apply" THEN StandardFilter_apply(fctx.filter_type, fdata, fctx)
         ELSE StandardFilter_reverse(fctx.filter_type, fdata, fctx)
    ELSE IF op = "apply"
         THEN Ok(apply_filter(fctx.filter_type, fdata, fctx.width, fctx.bytes_per_pixel))
         ELSE Ok(reverse_filter(fctx.filter_type, fdata, fctx.width, fctx.bytes_per_pixel))

FilterStep(op, from, to) ==
    /\ fstage = from
    /\ LET r == FilterCall(op)
       IN  IF r.ok THEN fdata' = r.data /\ fstage' = to /\ ferr' = ""
           ELSE fdata' = fdata /\ fstage' = "failed" /\ ferr' = r.err
    /\ UNCHANGED <<forig, fctx>>

\* the two call orders: apply then reverse, reverse then apply
FilterApply        == FilterStep("apply", "start", "applied")
FilterReverse      == FilterStep("reverse", "applied", "applied_reversed")
FilterReverseFirst == FilterStep("reverse", "start", "reversed")
FilterApplyBack    == FilterStep("apply", "reversed", "reversed_applied")

---------------------------------------------------------------------------
(* Interlace engine (constants.rs, interlace.rs) *)

\* constants.rs INTERLACE_PASSES / INTERLACE_Y_PASSES, one row per pass
INTERLACE_PASSES ==
    << <<0, 0, 0, 0, 0, 0, 0, 0>>,
       <<4, 0, 0, 0, 0, 0, 0, 0>>,
       <<0, 4, 0, 0, 0, 0, 0, 0>>,
       <<2, 6, 0, 0, 0, 0, 0, 0>>,
       <<0, 2, 4, 6, 0, 0, 0, 0>>,
       <<1, 3, 5, 7, 0, 0, 0, 0>>,
       <<0, 1, 2, 3, 4, 5, 6, 7>> >>

INTERLACE_Y_PASSES ==
    << <<0, 0, 0, 0, 0, 0, 0, 0>>,
       <<0, 0, 0, 0, 0, 0, 0, 0>>,
       <<4, 0, 0, 0, 0, 0, 0, 0>>,
       <<0, 4, 0, 0, 0, 0, 0, 0>>,
       <<2, 6, 0, 0, 0, 0, 0, 0>>,
       <<0, 2, 4, 6, 0, 0, 0, 0>>,
       <<1, 3, 5, 7, 0, 0, 0, 0>> >>

\* for i in 0..8 { if pass_row[i] != 0 { acc += (size + (7 - pass_row[i])) / 8 } }
RECURSIVE PassExtent(_, _, _)
PassExtent(pass_row, size, i) ==
    IF i >= 8 THEN 0
    ELSE (IF At(pass_row, i) # 0 THEN (size + (7 - At(pass_row, i))) \div 8 ELSE 0)
         + PassExtent(pass_row, size, i + 1)

\* constants.rs get_interlace_pass_size: <<pass_width, pass_height>>
get_interlace_pass_size(width, height, pass) ==
    IF pass >= 7 THEN <<0, 0>>
    ELSE <<PassExtent(At(INTERLACE_PASSES, pass), width, 0),
           PassExtent(At(INTERLACE_Y_PASSES, pass), height, 0)>>

\* interlace.rs get_interlace_offsets: <<x_offset, y_offset, x_step, y_step>>
get_interlace_offsets(pass) ==
    CASE pass = 0 -> <<0, 0, 8, 8>>
      [] pass = 1 -> <<4, 0, 8, 8>>
      [] pass = 2 -> <<0, 4, 4, 8>>
      [] pass = 3 -> <<2, 0, 4, 4>>
      [] pass = 4 -> <<0, 2, 2, 4>>
      [] pass = 5 -> <<1, 0, 2, 2>>
      [] pass = 6 -> <<0, 1, 1, 2>>
      [] OTHER    -> <<0, 0, 1, 1>>

\* interlace.rs get_interlace_passes: the passes with width > 0 and height > 0
RECURSIVE PassList(_, _, _)
PassList(width, height, pass) ==
    IF pass >= 7 THEN <<>>
    ELSE LET sz  == get_interlace_pass_size(width, height, pass)
             off == get_interlace_offsets(pass)
         IN  (IF sz[1] > 0 /\ sz[2] > 0
              THEN << [pass |-> pass, width |-> sz[1], height |-> sz[2],
                       x_offset |-> off[1], y_offset |-> off[2],
                       x_step |-> off[3], y_step |-> off[4],
                       data_size |-> sz[1] * sz[2]] >>
              ELSE <<>>)
             \o PassList(width, height, pass + 1)

get_interlace_passes(width, height) == PassList(width, height, 0)

\* interlace.rs interlace_image, one pass: byte k of the pass buffer is the
\* byte i of the source pixel the loops copy to it, 0 where the guards
\* skip the copy
InterlacePass(image_data, width, height, bpp, pass) ==
    LET sz  == get_interlace_pass_size(width, height, pass)
        off == get_interlace_offsets(pass)
        n   == sz[1] * sz[2] * bpp
    IN  IF sz[1] = 0 \/ sz[2] = 0 THEN <<>>
        ELSE [k \in 1..n |->
                LET pix        == (k - 1) \div bpp
                    i          == (k - 1) % bpp
                    y          == pix \div sz[1]
                    x          == pix % sz[1]
                    source_x   == off[1] + x * off[3]
                    source_y   == off[2] + y * off[4]
                    source_idx == (source_y * width + source_x) * bpp
                    target_idx == (y * sz[1] + x) * bpp
                IN  IF /\ source_x < width /\ source_y < height
                       /\ source_idx + bpp <= Len(image_data)
                       /\ target_idx + bpp <= n
                    THEN At(image_data, source_idx + i)
                    ELSE 0]

\* interlace.rs interlace_image: always 7 buffers, empty for an empty pass
interlace_image(image_data, width, height, bpp) ==
    [p \in 1..7 |-> InterlacePass(image_data, width, height, bpp, p - 1)]

\* does pass `pass` of deinterlace_passes write the pixel (tx, ty)?
PassWrites(passes, width, height, bpp, pass, tx, ty) ==
    LET sz  == get_interlace_pass_size(width, height, pass)
        off == get_interlace_offsets(pass)
    IN  /\ pass < Len(passes)
        /\ sz[1] # 0 /\ sz[2] # 0
        /\ tx >= off[1] /\ (tx - off[1]) % off[3] = 0 /\ (tx - off[1]) \div off[3] < sz[1]
        /\ ty >= off[2] /\ (ty - off[2]) % off[4] = 0 /\ (ty - off[2]) \div off[4] < sz[2]
        /\ tx < width /\ ty < height
        /\ (((ty - off[2]) \div off[4]) * sz[1] + (tx - off[1]) \div off[3]) * bpp + bpp
              <= Len(At(passes, pass))
        /\ (ty * width + tx) * bpp + bpp <= width * height * bpp

\* interlace.rs deinterlace_passes: the result starts all zero; the passes
\* are scattered in the order 0..6, so a byte holds what the last pass
\* that writes its pixel wrote
deinterlace_passes(passes, width, height, bpp) ==
    [k \in 1..(width * height * bpp) |->
        LET pix == (k - 1) \div bpp
            i   == (k - 1) % bpp
            ty  == pix \div width
            tx  == pix % width
            ws  == {p \in 0..6 : PassWrites(passes, width, height, bpp, p, tx, ty)}
        IN  IF ws = {} THEN 0
            ELSE LET p   == CHOOSE q \in ws : \A r \in ws : r <= q
                     sz  == get_interlace_pass_size(width, height, p)
                     off == get_interlace_offsets(p)
                     source_idx == (((ty - off[2]) \div off[4]) * sz[1]
                                    + (tx - off[1]) \div off[3]) * bpp
                 IN  At(At(passes, p), source_idx + i)]

\* The images tried: widths and heights up to MaxDim and the sizes 5, 8,
\* 13, 64 of the coverage property; 1 or 3 bytes per pixel; byte i of the
\* image is (i + fill) % 256, as the tests fill it.
MaxDim == 4
MaxFill == 1
CoverageDims == {1, 5, 8, 13, 64}
InterlaceDims == (1..MaxDim) \cup CoverageDims
InterlaceBpps == {1, 3}

TestImage(n, fill) == [k \in 1..n |-> (k - 1 + fill) % 256]

InterlaceIdle ==
    /\ iw = 0 /\ ih = 0 /\ ibpp = 0 /\ iimg = <<>>
    /\ ipassinfo = <<>> /\ ipasses = <<>> /\ irecon = <<>>
    /\ istage = "idle"

InterlaceInit ==
    /\ iw \in InterlaceDims /\ ih \in InterlaceDims /\ ibpp \in InterlaceBpps
    /\ \E fill \in 0..MaxFill : iimg = TestImage(iw * ih * ibpp, fill)
    /\ ipassinfo = <<>> /\ ipasses = <<>> /\ irecon = <<>>
    /\ istage = "start"

\* get_interlace_passes(width, height)
GetInterlacePasses ==
    /\ istage = "start"
    /\ ipassinfo' = get_interlace_passes(iw, ih)
    /\ istage' = "sized"
    /\ UNCHANGED <<iw, ih, ibpp, iimg, ipasses, irecon>>

\* interlace_image(&image_data, width, height, bytes_per_pixel)
InterlaceImage ==
    /\ istage = "sized"
    /\ ipasses' = interlace_image(iimg, iw, ih, ibpp)
    /\ istage' = "interlaced"
    /\ UNCHANGED <<iw, ih, ibpp, iimg, ipassinfo, irecon>>

\* deinterlace_passes(&passes, width, height, bytes_per_pixel)
DeinterlacePasses ==
    /\ istage = "interlaced"
    /\ irecon' = deinterlace_passes(ipasses, iw, ih, ibpp)
    /\ istage' = "done"
    /\ UNCHANGED <<iw, ih, ibpp, iimg, ipassinfo, ipasses>>

---------------------------------------------------------------------------
(* CRC-32 (src/src/lib.rs) *)
(* A u32 is kept as its four big-endian bytes, so that the table lookups   *)
(* and shifts of crc32 work on bytes and no value leaves the integers.     *)

PNG_SIGNATURE == <<137, 80, 78, 71, 13, 10, 26, 10>>

TYPE_IHDR == <<73, 72, 68, 82>>
TYPE_IEND == <<73, 69, 78, 68>>
TYPE_IDAT == <<73, 68, 65, 84>>
TYPE_PLTE == <<80, 76, 84, 69>>
TYPE_tRNS == <<116, 82, 78, 83>>
TYPE_gAMA == <<103, 65, 77, 65>>
TYPE_cHRM == <<99, 72, 82, 77>>
TYPE_sRGB == <<115, 82, 71, 66>>
TYPE_iCCP == <<105, 67, 67, 80>>
TYPE_tEXt == <<116, 69, 88, 116>>
TYPE_zTXt == <<122, 84, 88, 116>>
TYPE_iTXt == <<105, 84, 88, 116>>

COLORTYPE_GRAYSCALE     == 0
COLORTYPE_PALETTE       == 1
COLORTYPE_COLOR         == 2
COLORTYPE_ALPHA         == 4
COLORTYPE_PALETTE_COLOR == 3
COLORTYPE_COLOR_ALPHA   == 6

\* a ^ b on bytes, bit by bit
Xor8(a, b) ==
    LET bit(k) == ((a \div (2 ^ k)) + (b \div (2 ^ k))) % 2
    IN  bit(0) + 2 * bit(1) + 4 * bit(2) + 8 * bit(3)
          + 16 * bit(4) + 32 * bit(5) + 64 * bit(6) + 128 * bit(7)

\* e, with v evaluated first: an accumulator handed from one loop step to
\* the next is a value, not a growing unevaluated expression
Forced(v, e) == IF v = v THEN e ELSE e

\* u32::to_be_bytes of a value below 2^31
to_be_bytes(n) ==
    <<(n \div 16777216) % 256, (n \div 65536) % 256, (n \div 256) % 256, n % 256>>

\* u32::from_be_bytes, read as a number.  Values from 2^30 up are all given
\* as 2^30: the buffers here are far shorter, so every comparison of such a
\* value with a buffer length comes out as in the source.
from_be_bytes(b) ==
    IF b[1] >= 64 THEN 1073741824
    ELSE ((b[1] * 256 + b[2]) * 256 + b[3]) * 256 + b[4]

CRC_TABLE ==
    <<
       <<0, 0, 0, 0>>, <<119, 7, 48, 150>>, <<238, 14, 97, 44>>, <<153, 9, 81, 186>>,
       <<7, 109, 196, 25>>, <<112, 106, 244, 143>>, <<233, 99, 165, 53>>, <<158, 100, 149, 163>>,
       <<14, 219, 136, 50>>, <<121, 220, 184, 164>>, <<224, 213, 233, 30>>, <<151, 210, 217, 136>>,
       <<9, 182, 76, 43>>, <<126, 177, 124, 189>>, <<231, 184, 45, 7>>, <<144, 191, 29, 145>>,
       <<29, 183, 16, 100>>, <<106, 176, 32, 242>>, <<243, 185, 113, 72>>, <<132, 190, 65, 222>>,
       <<26, 218, 212, 125>>, <<109, 221, 228, 235>>, <<244, 212, 181, 81>>, <<131, 211, 133, 199>>,
       <<19, 108, 152, 86>>, <<100, 107, 168, 192>>, <<253, 98, 249, 122>>, <<138, 101, 201, 236>>,
       <<20, 1, 92, 79>>, <<99, 6, 108, 217>>, <<250, 15, 61, 99>>, <<141, 8, 13, 245>>,
       <<59, 110, 32, 200>>, <<76, 105, 16, 94>>, <<213, 96, 65, 228>>, <<162, 103, 113, 114>>,
       <<60, 3, 228, 209>>, <<75, 4, 212, 71>>, <<210, 13, 133, 253>>, <<165, 10, 181, 107>>,
       <<53, 181, 168, 250>>, <<66, 178, 152, 108>>, <<219, 187, 201, 214>>, <<172, 188, 249, 64>>,
       <<50, 216, 108, 227>>, <<69, 223, 92, 117>>, <<220, 214, 13, 207>>, <<171, 209, 61, 89>>,
       <<38, 217, 48, 172>>, <<81, 222, 0, 58>>, <<200, 215, 81, 128>>, <<191, 208, 97, 22>>,
       <<33, 180, 244, 181>>, <<86, 179, 196, 35>>, <<207, 186, 149, 153>>, <<184, 189, 165, 15>>,
       <<40, 2, 184, 158>>, <<95, 5, 136, 8>>, <<198, 12, 217, 178>>, <<177, 11, 233, 36>>,
       <<47, 111, 124, 135>>, <<88, 104, 76, 17>>, <<193, 97, 29, 171>>, <<182, 102, 45, 61>>,
       <<118, 220, 65, 144>>, <<1, 219, 113, 6>>, <<152, 210, 32, 188>>, <<239, 213, 16, 42>>,
       <<113, 177, 133, 137>>, <<6, 182, 181, 31>>, <<159, 191, 228, 165>>, <<232, 184, 212, 51>>,
       <<120, 7, 201, 162>>, <<15, 0, 249, 52>>, <<150, 9, 168, 142>>, <<225, 14, 152, 24>>,
       <<127, 106, 13, 187>>, <<8, 109, 61, 45>>, <<145, 100, 108, 151>>, <<230, 99, 92, 1>>,
       <<107, 107, 81, 244>>, <<28, 108, 97, 98>>, <<133, 101, 48, 216>>, <<242, 98, 0, 78>>,
       <<108, 6, 149, 237>>, <<27, 1, 165, 123>>, <<130, 8, 244, 193>>, <<245, 15, 196, 87>>,
       <<101, 176, 217, 198>>, <<18, 183, 233, 80>>, <<139, 190, 184, 234>>, <<252, 185, 136, 124>>,
       <<98, 221, 29, 223>>, <<21, 218, 45, 73>>, <<140, 211, 124, 243>>, <<251, 212, 76, 101>>,
       <<77, 178, 97, 88>>, <<58, 181, 81, 206>>, <<163, 188, 0, 116>>, <<212, 187, 48, 226>>,
       <<74, 223, 165, 65>>, <<61, 216, 149, 215>>, <<164, 209, 196, 109>>, <<211, 214, 244, 251>>,
       <<67, 105, 233, 106>>, <<52, 110, 217, 252>>, <<173, 103, 136, 70>>, <<218, 96, 184, 208>>,
       <<68, 4, 45, 115>>, <<51, 3, 29, 229>>, <<170, 10, 76, 95>>, <<221, 13, 124, 201>>,
       <<80, 5, 113, 60>>, <<39, 2, 65, 170>>, <<190, 11, 16, 16>>, <<201, 12, 32, 134>>,
       <<87, 104, 181, 37>>, <<32, 111, 133, 179>>, <<185, 102, 212, 9>>, <<206, 97, 228, 159>>,
       <<94, 222, 249, 14>>, <<41, 217, 201, 152>>, <<176, 208, 152, 34>>, <<199, 215, 168, 180>>,
       <<89, 179, 61, 23>>, <<46, 180, 13, 129>>, <<183, 189, 92, 59>>, <<192, 186, 108, 173>>,
       <<237, 184, 131, 32>>, <<154, 191, 179, 182>>, <<3, 182, 226, 12>>, <<116, 177, 210, 154>>,
       <<234, 213, 71, 57>>, <<157, 210, 119, 175>>, <<4, 219, 38, 21>>, <<115, 220, 22, 131>>,
       <<227, 99, 11, 18>>, <<148, 100, 59, 132>>, <<13, 109, 106, 62>>, <<122, 106, 90, 168>>,
       <<228, 14, 207, 11>>, <<147, 9, 255, 157>>, <<10, 0, 174, 39>>, <<125, 7, 158, 177>>,
       <<240, 15, 147, 68>>, <<135, 8, 163, 210>>, <<30, 1, 242, 104>>, <<105, 6, 194, 254>>,
       <<247, 98, 87, 93>>, <<128, 101, 103, 203>>, <<25, 108, 54, 113>>, <<110, 107, 6, 231>>,
       <<254, 212, 27, 118>>, <<137, 211, 43, 224>>, <<16, 218, 122, 90>>, <<103, 221, 74, 204>>,
       <<249, 185, 223, 111>>, <<142, 190, 239, 249>>, <<23, 183, 190, 67>>, <<96, 176, 142, 213>>,
       <<214, 214, 163, 232>>, <<161, 209, 147, 126>>, <<56, 216, 194, 196>>, <<79, 223, 242, 82>>,
       <<209, 187, 103, 241>>, <<166, 188, 87, 103>>, <<63, 181, 6, 221>>, <<72, 178, 54, 75>>,
       <<216, 13, 43, 218>>, <<175, 10, 27, 76>>, <<54, 3, 74, 246>>, <<65, 4, 122, 96>>,
       <<223, 96, 239, 195>>, <<168, 103, 223, 85>>, <<49, 110, 142, 239>>, <<70, 105, 190, 121>>,
       <<203, 97, 179, 140>>, <<188, 102, 131, 26>>, <<37, 111, 210, 160>>, <<82, 104, 226, 54>>,
       <<204, 12, 119, 149>>, <<187, 11, 71, 3>>, <<34, 2, 22, 185>>, <<85, 5, 38, 47>>,
       <<197, 186, 59, 190>>, <<178, 189, 11, 40>>, <<43, 180, 90, 146>>, <<92, 179, 106, 4>>,
       <<194, 215, 255, 167>>, <<181, 208, 207, 49>>, <<44, 217, 158, 139>>, <<91, 222, 174, 29>>,
       <<155, 100, 194, 176>>, <<236, 99, 242, 38>>, <<117, 106, 163, 156>>, <<2, 109, 147, 10>>,
       <<156, 9, 6, 169>>, <<235, 14, 54, 63>>, <<114, 7, 103, 133>>, <<5, 0, 87, 19>>,
       <<149, 191, 74, 130>>, <<226, 184, 122, 20>>, <<123, 177, 43, 174>>, <<12, 182, 27, 56>>,
       <<146, 210, 142, 155>>, <<229, 213, 190, 13>>, <<124, 220, 239, 183>>, <<11, 219, 223, 33>>,
       <<134, 211, 210, 212>>, <<241, 212, 226, 66>>, <<104, 221, 179, 248>>, <<31, 218, 131, 110>>,
       <<129, 190, 22, 205>>, <<246, 185, 38, 91>>, <<111, 176, 119, 225>>, <<24, 183, 71, 119>>,
       <<136, 8, 90, 230>>, <<255, 15, 106, 112>>, <<102, 6, 59, 202>>, <<17, 1, 11, 92>>,
       <<143, 101, 158, 255>>, <<248, 98, 174, 105>>, <<97, 107, 255, 211>>, <<22, 108, 207, 69>>,
       <<160, 10, 226, 120>>, <<215, 13, 210, 238>>, <<78, 4, 131, 84>>, <<57, 3, 179, 194>>,
       <<167, 103, 38, 97>>, <<208, 96, 22, 247>>, <<73, 105, 71, 77>>, <<62, 110, 119, 219>>,
       <<174, 209, 106, 74>>, <<217, 214, 90, 220>>, <<64, 223, 11, 102>>, <<55, 216, 59, 240>>,
       <<169, 188, 174, 83>>, <<222, 187, 158, 197>>, <<71, 178, 207, 127>>, <<48, 181, 255, 233>>,
       <<189, 189, 242, 28>>, <<202, 186, 194, 138>>, <<83, 179, 147, 48>>, <<36, 180, 163, 166>>,
       <<186, 208, 54, 5>>, <<205, 215, 6, 147>>, <<84, 222, 87, 41>>, <<35, 217, 103, 191>>,
       <<179, 102, 122, 46>>, <<196, 97, 74, 184>>, <<93, 104, 27, 2>>, <<42, 111, 43, 148>>,
       <<180, 11, 190, 55>>, <<195, 12, 142, 161>>, <<90, 5, 223, 27>>, <<45, 2, 239, 141>>
    >>

\* crc = CRC_TABLE[((crc ^ byte) & 0xff)] ^ (crc >> 8)
CrcStep(crc, byte) ==
    LET t == CRC_TABLE[Xor8(crc[4], byte) + 1]
    IN  <<t[1], Xor8(t[2], crc[1]), Xor8(t[3], crc[2]), Xor8(t[4], crc[3])>>

\* for &byte in data { .. } over the 1-based positions lo..hi, starting from
\* crc; the range is done in two halves, first lo..mid, then the rest
RECURSIVE CrcLoop(_, _, _, _)
CrcLoop(data, lo, hi, crc) ==
    IF lo > hi THEN crc
    ELSE IF lo = hi THEN CrcStep(crc, data[lo])
    ELSE LET mid  == (lo + hi) \div 2
             left == CrcLoop(data, lo, mid, crc)
         IN  Forced(left, CrcLoop(data, mid + 1, hi, left))

\* the variant of crc32 that drops the top bit of every input byte
crc32_low7(data) ==
    LET low7 == [i \in 1..Len(data) |-> data[i] % 128]
        c    == CrcLoop(low7, 1, Len(data), <<255, 255, 255, 255>>)
    IN  [i \in 1..4 |-> 255 - c[i]]

\* crc starts at 0xffffffff and is returned as crc ^ 0xffffffff
crc32(data) ==
    LET c == CrcLoop(data, 1, Len(data), <<255, 255, 255, 255>>)
    IN  [i \in 1..4 |-> 255 - c[i]]

---------------------------------------------------------------------------
(* Chunks (src/src/png_chunks.rs) *)

NamedTypes ==
    <<  <<TYPE_IHDR, "IHDR">>, <<TYPE_IEND, "IEND">>, <<TYPE_IDAT, "IDAT">>,
        <<TYPE_PLTE, "PLTE">>, <<TYPE_tRNS, "TRNS">>, <<TYPE_gAMA, "GAMA">>,
        <<TYPE_cHRM, "CHRM">>, <<TYPE_sRGB, "SRGB">>, <<TYPE_iCCP, "ICCP">>,
        <<TYPE_tEXt, "TEXT">>, <<TYPE_zTXt, "ZTXT">>, <<TYPE_iTXt, "ITXT">>  >>

\* the enum ChunkType: a named variant, or Unknown(value)
ChunkType_from_u32(value) ==
    IF \E i \in 1..Len(NamedTypes) : NamedTypes[i][1] = value
    THEN LET i == CHOOSE i \in 1..Len(NamedTypes) : NamedTypes[i][1] = value
         IN  [kind |-> NamedTypes[i][2], value |-> <<>>]
    ELSE [kind |-> "Unknown", value |-> value]

ChunkType_to_u32(t) ==
    IF t.kind = "Unknown" THEN t.value
    ELSE LET i == CHOOSE i \in 1..Len(NamedTypes) : NamedTypes[i][2] = t.kind
         IN  NamedTypes[i][1]

PNGChunk_calculate_crc(chunk_type, data) ==
    crc32(ChunkType_to_u32(chunk_type) \o data)

PNGChunk_verify_crc(chunk) ==
    PNGChunk_calculate_crc(chunk.chunk_type, chunk.data) = chunk.crc

IHDRData_from_bytes(data) ==
    IF Len(data) # 13 THEN Err("IHDR data must be 13 bytes")
    ELSE Ok([width              |-> from_be_bytes(Slice(data, 0, 4)),
             height             |-> from_be_bytes(Slice(data, 4, 8)),
             bit_depth          |-> At(data, 8),
             color_type         |-> At(data, 9),
             compression_method |-> At(data, 10),
             filter_method      |-> At(data, 11),
             interlace_method   |-> At(data, 12)])

PLTEData_from_bytes(data) ==
    IF Len(data) % 3 # 0 THEN Err("PLTE data length must be multiple of 3")
    ELSE Ok([i \in 1..(Len(data) \div 3) |-> Slice(data, 3 * (i - 1), 3 * i)])

TRNSData_from_bytes(data, color_type) ==
    IF color_type = COLORTYPE_GRAYSCALE
    THEN IF Len(data) # 2 THEN Err("Grayscale tRNS must be 2 bytes")
         ELSE Ok([kind |-> "Grayscale", value |-> data])
    ELSE IF color_type = COLORTYPE_COLOR
    THEN IF Len(data) # 6 THEN Err("RGB tRNS must be 6 bytes")
         ELSE Ok([kind |-> "RGB", value |-> data])
    ELSE IF color_type = COLORTYPE_PALETTE_COLOR
    THEN Ok([kind |-> "Palette", value |-> data])
    ELSE Err("Invalid color type for tRNS")

GAMAData_from_bytes(data) ==
    IF Len(data) # 4 THEN Err("gAMA data must be 4 bytes")
    ELSE Ok(from_be_bytes(data))

CHRMData_from_bytes(data) ==
    IF Len(data) # 32 THEN Err("cHRM data must be 32 bytes")
    ELSE Ok([i \in 1..8 |-> from_be_bytes(Slice(data, 4 * (i - 1), 4 * i))])

SRGBData_from_bytes(data) ==
    IF Len(data) # 1 THEN Err("sRGB data must be 1 byte")
    ELSE Ok(At(data, 0))

\* String::from_utf8(..).is_ok(): the byte sequence is well-formed UTF-8
RECURSIVE Utf8Valid(_, _)
Utf8Valid(s, i) ==
    LET cont(k) == i + k <= Len(s) /\ s[i + k] \in 128..191
    IN  IF i > Len(s) THEN TRUE
        ELSE IF s[i] < 128 THEN Utf8Valid(s, i + 1)
        ELSE IF s[i] \in 194..223 THEN cont(1) /\ Utf8Valid(s, i + 2)
        ELSE IF s[i] \in 224..239
        THEN /\ cont(1) /\ cont(2)
             /\ (s[i] = 224 => s[i + 1] >= 160)
             /\ (s[i] = 237 => s[i + 1] <= 159)
             /\ Utf8Valid(s, i + 3)
        ELSE IF s[i] \in 240..244
        THEN /\ cont(1) /\ cont(2) /\ cont(3)
             /\ (s[i] = 240 => s[i + 1] >= 144)
             /\ (s[i] = 244 => s[i + 1] <= 143)
             /\ Utf8Valid(s, i + 4)
        ELSE FALSE

\* data.iter().position(|&b| b == 0), 0-based; Len(data) when there is none
NullPos(data) ==
    IF \E i \in 1..Len(data) : data[i] = 0
    THEN (CHOOSE i \in 1..Len(data) :
              data[i] = 0 /\ \A j \in 1..(i - 1) : data[j] # 0) - 1
    ELSE Len(data)

TEXTData_from_bytes(data) ==
    LET null_pos == NullPos(data)
    IN  IF null_pos = Len(data) THEN Err("No null terminator found")
        ELSE IF ~Utf8Valid(Slice(data, 0, null_pos), 1) THEN Err("Invalid keyword encoding")
        ELSE IF ~Utf8Valid(Slice(data, null_pos + 1, Len(data)), 1) THEN Err("Invalid text encoding")
        ELSE Ok([keyword |-> Slice(data, 0, null_pos),
                 text    |-> Slice(data, null_pos + 1, Len(data))])

ZTXTData_from_bytes(data) ==
    LET null_pos == NullPos(data)
    IN  IF null_pos = Len(data) THEN Err("No null terminator found")
        ELSE IF ~Utf8Valid(Slice(data, 0, null_pos), 1) THEN Err("Invalid keyword encoding")
        ELSE IF null_pos + 1 >= Len(data) THEN Err("Insufficient data for zTXt")
        ELSE Ok([keyword            |-> Slice(data, 0, null_pos),
                 compression_method |-> At(data, null_pos + 1),
                 compressed_text    |-> Slice(data, null_pos + 2, Len(data))])

ITXTData_from_bytes(data) ==
    LET null_pos == NullPos(data)
        off1     == null_pos + 3
        rest1    == Slice(data, off1, Len(data))
        lang     == NullPos(rest1)
        off2     == off1 + lang + 1
        rest2    == Slice(data, off2, Len(data))
        trans    == NullPos(rest2)
        off3     == off2 + trans + 1
    IN  IF null_pos = Len(data) THEN Err("No null terminator found")
        ELSE IF ~Utf8Valid(Slice(data, 0, null_pos), 1) THEN Err("Invalid keyword encoding")
        ELSE IF null_pos + 3 >= Len(data) THEN Err("Insufficient data for iTXt")
        ELSE IF lang = Len(rest1) THEN Err("No language tag terminator found")
        ELSE IF ~Utf8Valid(Slice(data, off1, off1 + lang), 1)
             THEN Err("Invalid language tag encoding")
        ELSE IF trans = Len(rest2) THEN Err("No translated keyword terminator found")
        ELSE IF ~Utf8Valid(Slice(data, off2, off2 + trans), 1)
             THEN Err("Invalid translated keyword encoding")
        ELSE IF ~Utf8Valid(Slice(data, off3, Len(data)), 1)
             THEN Err(IF At(data, null_pos + 1) = 0 THEN "Invalid text encoding"
                      ELSE "Invalid compressed text encoding")
        ELSE Ok([keyword            |-> Slice(data, 0, null_pos),
                 compression_flag   |-> At(data, null_pos + 1),
                 compression_method |-> At(data, null_pos + 2),
                 language_tag       |-> Slice(data, off1, off1 + lang),
                 translated_keyword |-> Slice(data, off2, off2 + trans),
                 text               |-> Slice(data, off3, Len(data))])

\* PNGChunkParser::new(): an Option is a sequence of no or one element, the
\* map chunks a list of pairs <<chunk type, its chunks in order>>
PNGChunkParser_new ==
    [chunks        |-> <<>>,
     ihdr          |-> <<>>,
     palette       |-> <<>>,
     transparency  |-> <<>>,
     gamma         |-> <<>>,
     chroma        |-> <<>>,
     srgb          |-> <<>>,
     text_chunks   |-> <<>>,
     ztxt_chunks   |-> <<>>,
     itxt_chunks   |-> <<>>]

\* self.chunks.entry(chunk_type).or_insert_with(Vec::new).push(chunk)
StoreChunk(chunks, chunk) ==
    LET known == {chunks[i][1] : i \in 1..Len(chunks)}
    IN  IF chunk.chunk_type \in known
        THEN [i \in 1..Len(chunks) |->
                 IF chunks[i][1] = chunk.chunk_type
                 THEN <<chunks[i][1], Append(chunks[i][2], chunk)>>
                 ELSE chunks[i]]
        ELSE Append(chunks, <<chunk.chunk_type, <<chunk>>>>)

\* process_chunk: the parser after the chunk, or the error of its from_bytes
\* (the parser is then as it was before the chunk)
process_chunk(self, chunk) ==
    LET k == chunk.chunk_type.kind
        r == IF k = "IHDR" THEN IHDRData_from_bytes(chunk.data)
             ELSE IF k = "PLTE" THEN PLTEData_from_bytes(chunk.data)
             ELSE IF k = "TRNS" /\ self.ihdr # <<>>
                  THEN TRNSData_from_bytes(chunk.data, self.ihdr[1].color_type)
             ELSE IF k = "GAMA" THEN GAMAData_from_bytes(chunk.data)
             ELSE IF k = "CHRM" THEN CHRMData_from_bytes(chunk.data)
             ELSE IF k = "SRGB" THEN SRGBData_from_bytes(chunk.data)
             ELSE IF k = "TEXT" THEN TEXTData_from_bytes(chunk.data)
             ELSE IF k = "ZTXT" THEN ZTXTData_from_bytes(chunk.data)
             ELSE IF k = "ITXT" THEN ITXTData_from_bytes(chunk.data)
             ELSE Ok(<<>>)
        s == IF k = "IHDR" THEN [self EXCEPT !.ihdr = <<r.data>>]
             ELSE IF k = "PLTE" THEN [self EXCEPT !.palette = <<r.data>>]
             ELSE IF k = "TRNS" /\ self.ihdr # <<>>
                  THEN [self EXCEPT !.transparency = <<r.data>>]
             ELSE IF k = "GAMA" THEN [self EXCEPT !.gamma = <<r.data>>]
             ELSE IF k = "CHRM" THEN [self EXCEPT !.chroma = <<r.data>>]
             ELSE IF k = "SRGB" THEN [self EXCEPT !.srgb = <<r.data>>]
             ELSE IF k = "TEXT" THEN [self EXCEPT !.text_chunks = Append(@, r.data)]
             ELSE IF k = "ZTXT" THEN [self EXCEPT !.ztxt_chunks = Append(@, r.data)]
             ELSE IF k = "ITXT" THEN [self EXCEPT !.itxt_chunks = Append(@, r.data)]
             ELSE self
    IN  IF ~r.ok THEN [ok |-> FALSE, err |-> r.err, self |-> self]
        ELSE [ok |-> TRUE, err |-> "",
              self |-> [s EXCEPT !.chunks = StoreChunk(@, chunk)]]

InvalidCRC == "Invalid CRC for chunk"

\* the while loop of PNGChunkParser::parse from byte offset on
RECURSIVE ParseLoop(_, _, _)
ParseLoop(self, data, offset) ==
    IF ~(offset < Len(data)) THEN [ok |-> TRUE, err |-> "", self |-> self]
    ELSE IF offset + 8 > Len(data)
    THEN [ok |-> FALSE, err |-> "Insufficient data for chunk header", self |-> self]
    ELSE
      LET length     == from_be_bytes(Slice(data, offset, offset + 4))
          chunk_type == Slice(data, offset + 4, offset + 8)
          off2       == offset + 8
      IN  IF off2 + length + 4 > Len(data)
          THEN [ok |-> FALSE, err |-> "Insufficient data for chunk", self |-> self]
          ELSE
            LET chunk == [length     |-> length,
                          chunk_type |-> ChunkType_from_u32(chunk_type),
                          data       |-> Slice(data, off2, off2 + length),
                          crc        |-> Slice(data, off2 + length, off2 + length + 4)]
            IN  IF ~PNGChunk_verify_crc(chunk)
                THEN [ok |-> FALSE, err |-> InvalidCRC, self |-> self]
                ELSE LET p == process_chunk(self, chunk)
                     IN  IF ~p.ok THEN p
                         ELSE ParseLoop(p.self, data, off2 + length + 4)

\* PNGChunkParser::parse(&mut self, data): the result and the parser it leaves
PNGChunkParser_parse(self, data) ==
    IF Len(data) < Len(PNG_SIGNATURE)
    THEN [ok |-> FALSE, err |-> "Insufficient data for PNG signature", self |-> self]
    ELSE IF Slice(data, 0, Len(PNG_SIGNATURE)) # PNG_SIGNATURE
    THEN [ok |-> FALSE, err |-> "Invalid PNG signature", self |-> self]
    ELSE ParseLoop(self, data, Len(PNG_SIGNATURE))

---------------------------------------------------------------------------
(* Writing chunks (src/src/png_packer.rs) *)

\* write_chunk: length, type, data, crc32(type ++ data) appended to output
write_chunk(output, chunk_type, data) ==
    output \o to_be_bytes(Len(data)) \o chunk_type \o data
           \o crc32(chunk_type \o data)

---------------------------------------------------------------------------
(* Chunk streams: written chunk by chunk, possibly damaged, then parsed *)

MaxPayload == 1
PayloadBytes == {0, 255}

RECURSIVE SeqsUpTo(_, _)
SeqsUpTo(S, n) ==
    IF n = 0 THEN {<<>>}
    ELSE LET shorter == SeqsUpTo(S, n - 1)
         IN  shorter \cup {Append(s, b) : s \in {t \in shorter : Len(t) = n - 1}, b \in S}

\* write_ihdr_chunk's thirteen bytes
IhdrBytes(width, height, bit_depth, color_type) ==
    to_be_bytes(width) \o to_be_bytes(height) \o <<bit_depth, color_type, 0, 0, 0>>

\* the chunk lists of the streams: IHDR, PLTE for a palette image, possibly
\* a tEXt chunk, one IDAT, IEND
ChunkLists ==
    { <<[type |-> TYPE_IHDR, data |-> IhdrBytes(1, 1, 8, ct)]>>
        \o (IF ct = COLORTYPE_PALETTE_COLOR
            THEN <<[type |-> TYPE_PLTE, data |-> <<10, 20, 30>>]>> ELSE <<>>)
        \o (IF txt THEN <<[type |-> TYPE_tEXt, data |-> <<107, 0, 118>>]>> ELSE <<>>)
        \o <<[type |-> TYPE_IDAT, data |-> payload],
             [type |-> TYPE_IEND, data |-> <<>>]>> :
        ct \in {COLORTYPE_GRAYSCALE, COLORTYPE_PALETTE_COLOR},
        txt \in BOOLEAN,
        payload \in SeqsUpTo(PayloadBytes, MaxPayload) }

RECURSIVE WriteChunks(_, _, _)
WriteChunks(output, chunks, i) ==
    IF i > Len(chunks) THEN output
    ELSE LET out == write_chunk(output, chunks[i].type, chunks[i].data)
         IN  Forced(out, WriteChunks(out, chunks, i + 1))

\* the field of the written stream that byte offset pos lies in
RECURSIVE FieldAt(_, _, _, _)
FieldAt(chunks, i, start, pos) ==
    IF pos < start THEN "signature"
    ELSE IF i > Len(chunks) THEN "beyond"
    ELSE LET n == Len(chunks[i].data)
         IN  IF pos < start + 4 THEN "length"
             ELSE IF pos < start + 8 THEN "type"
             ELSE IF pos < start + 8 + n THEN "data"
             ELSE IF pos < start + 12 + n THEN "crc"
             ELSE FieldAt(chunks, i + 1, start + 12 + n, pos)

\* byte b with bit k inverted
FlipBit(b, k) ==
    IF (b \div (2 ^ k)) % 2 = 1 THEN b - 2 ^ k ELSE b + 2 ^ k

NoFlip == [pos |-> 0 - 1, bit |-> 0, field |-> "none"]
NotParsed == [ok |-> FALSE, err |-> "not parsed"]

ChunkIdle ==
    /\ cchunks = <<>>
    /\ cstream = <<>>
    /\ cflip = NoFlip
    /\ cparser = PNGChunkParser_new
    /\ cresult = NotParsed
    /\ cstage = "idle"

ChunkInit ==
    /\ cchunks \in ChunkLists
    /\ cstream = WriteChunks(PNG_SIGNATURE, cchunks, 1)
    /\ cflip = NoFlip
    /\ cparser = PNGChunkParser_new
    /\ cresult = NotParsed
    /\ cstage = "written"

\* one bit of the stream is inverted before it reaches the parser
ChunkFlipBit ==
    /\ cstage = "written"
    /\ \E pos \in 0..(Len(cstream) - 1), k \in 0..7 :
          /\ cstream' = Put(cstream, pos, FlipBit(At(cstream, pos), k))
          /\ cflip' = [pos |-> pos, bit |-> k,
                       field |-> FieldAt(cchunks, 1, Len(PNG_SIGNATURE), pos)]
    /\ cstage' = "damaged"
    /\ UNCHANGED <<cchunks, cparser, cresult>>

\* parser.parse(&stream) on a new parser
ChunkParse ==
    /\ cstage \in {"written", "damaged"}
    /\ LET r == PNGChunkParser_parse(cparser, cstream)
       IN  /\ cparser' = r.self
           /\ cresult' = [ok |-> r.ok, err |-> r.err]
    /\ cstage' = "parsed"
    /\ UNCHANGED <<cchunks, cstream, cflip>>

---------------------------------------------------------------------------
(* Chunk streams of any make-up: chunks in any order, chunks missing,     *)
(* bytes after the last chunk                                             *)

MaxOrderChunks == 3

\* the chunks the streams are made of
OrderChunks ==
    { [type |-> TYPE_IHDR, data |-> IhdrBytes(1, 1, 8, COLORTYPE_GRAYSCALE)],
      [type |-> TYPE_IHDR, data |-> IhdrBytes(1, 1, 8, COLORTYPE_PALETTE_COLOR)],
      [type |-> TYPE_PLTE, data |-> <<10, 20, 30>>],
      [type |-> TYPE_IDAT, data |-> <<0>>],
      [type |-> TYPE_IEND, data |-> <<>>] }

\* every list of up to MaxOrderChunks of them, and the palette image with
\* its four chunks in the order PNG requires
OrderLists ==
    SeqsUpTo(OrderChunks, MaxOrderChunks)
      \cup { <<[type |-> TYPE_IHDR, data |-> IhdrBytes(1, 1, 8, COLORTYPE_PALETTE_COLOR)],
               [type |-> TYPE_PLTE, data |-> <<10, 20, 30>>],
               [type |-> TYPE_IDAT, data |-> <<0>>],
               [type |-> TYPE_IEND, data |-> <<>>]>> }

\* what is appended to a stream: a byte, eight bytes, a whole gAMA chunk
TrailingBytes ==
    { <<0>>, <<0, 0, 0, 0, 0, 0, 0, 0>>,
      write_chunk(<<>>, TYPE_gAMA, <<0, 0, 177, 143>>) }

OrderInit ==
    /\ cchunks \in OrderLists
    /\ cstream = WriteChunks(PNG_SIGNATURE, cchunks, 1)
    /\ cflip = NoFlip
    /\ cparser = PNGChunkParser_new
    /\ cresult = NotParsed
    /\ cstage = "written"

\* bytes are appended to the stream before it reaches the parser; cflip.pos
\* is where they start
ChunkAppend ==
    /\ cstage = "written"
    /\ \E t \in TrailingBytes :
          /\ cstream' = cstream \o t
          /\ cflip' = [pos |-> Len(cstream), bit |-> 0, field |-> "trailing"]
    /\ cstage' = "extended"
    /\ UNCHANGED <<cchunks, cparser, cresult>>

\* parser.parse(&stream) on a new parser
OrderParse ==
    /\ cstage \in {"written", "extended"}
    /\ LET r == PNGChunkParser_parse(cparser, cstream)
       IN  /\ cparser' = r.self
           /\ cresult' = [ok |-> r.ok, err |-> r.err]
    /\ cstage' = "parsed"
    /\ UNCHANGED <<cchunks, cstream, cflip>>

---------------------------------------------------------------------------
(* Pixel mapping (src/src/bitmapper.rs, src/src/bitmap.rs) *)

\* Bitmapper::get_bytes_per_pixel; the arm COLORTYPE_GRAYSCALE | COLORTYPE_ALPHA
\* is an or-pattern, and COLORTYPE_GRAYSCALE is already taken by the first arm
Bitmapper_get_bytes_per_pixel(self) ==
    IF self.color_type = COLORTYPE_GRAYSCALE THEN 1
    ELSE IF self.color_type = COLORTYPE_COLOR THEN 3
    ELSE IF self.color_type = COLORTYPE_PALETTE_COLOR THEN 1
    ELSE IF self.color_type = COLORTYPE_ALPHA THEN 2
    ELSE IF self.color_type = COLORTYPE_COLOR_ALPHA THEN 4
    ELSE 4

scale_pixel_value(self, value) ==
    IF self.bit_depth = 1 THEN value \div 128
    ELSE IF self.bit_depth = 2 THEN value \div 64
    ELSE IF self.bit_depth = 4 THEN value \div 16
    ELSE value

PaletteOutOfBounds == "Palette index out of bounds"

\* the map_*_pixel functions: Ok(the four output bytes) or the error; on an
\* error the output pixel is left as it was
map_palette_pixel(self, pixel_data) ==
    LET index == At(pixel_data, 0)
    IN  IF self.palette = <<>> THEN Err("No palette available")
        ELSE LET palette == self.palette[1]
             IN  IF ~(index * 3 + 2 < Len(palette)) THEN Err(PaletteOutOfBounds)
                 ELSE Ok(<<At(palette, index * 3), At(palette, index * 3 + 1),
                           At(palette, index * 3 + 2),
                           IF self.trans_color # <<>> /\ index < Len(self.trans_color[1])
                           THEN At(self.trans_color[1], index) % 256
                           ELSE 255>>)

map_pixel(self, pixel_data) ==
    LET s(i) == scale_pixel_value(self, At(pixel_data, i))
    IN  IF self.color_type = COLORTYPE_GRAYSCALE THEN Ok(<<s(0), s(0), s(0), 255>>)
        ELSE IF self.color_type = COLORTYPE_COLOR
        THEN IF Len(pixel_data) < 3 THEN Err("Insufficient data for RGB pixel")
             ELSE Ok(<<s(0), s(1), s(2), 255>>)
        ELSE IF self.color_type = COLORTYPE_PALETTE_COLOR
        THEN map_palette_pixel(self, pixel_data)
        ELSE IF self.color_type = COLORTYPE_ALPHA
        THEN IF Len(pixel_data) < 2 THEN Err("Insufficient data for grayscale+alpha pixel")
             ELSE Ok(<<s(0), s(0), s(0), s(1)>>)
        ELSE IF self.color_type = COLORTYPE_COLOR_ALPHA
        THEN IF Len(pixel_data) < 4 THEN Err("Insufficient data for RGBA pixel")
             ELSE Ok(<<s(0), s(1), s(2), s(3)>>)
        ELSE Err("Unsupported color type")

\* s with the bytes of w written from 0-based position i on
PutAll(s, i, w) ==
    [k \in 1..Len(s) |-> IF k - 1 >= i /\ k - 1 < i + Len(w) THEN w[k - i] ELSE s[k]]

\* map_row from pixel x on; output is the whole image, ostart the row's start
RECURSIVE map_row(_, _, _, _, _)
map_row(self, row_data, output, ostart, x) ==
    LET bpp        == Bitmapper_get_bytes_per_pixel(self)
        input_pos  == x * bpp
        output_pos == x * 4
    IN  IF x >= self.width THEN Ok(output)
        ELSE IF input_pos + bpp <= Len(row_data) /\ output_pos + 3 < Len(output) - ostart
        THEN LET r == map_pixel(self, Slice(row_data, input_pos, input_pos + bpp))
             IN  IF ~r.ok THEN r
                 ELSE map_row(self, row_data, PutAll(output, ostart + output_pos, r.data),
                              ostart, x + 1)
        ELSE map_row(self, row_data, output, ostart, x + 1)

\* map_sequential_pixels from row y on
RECURSIVE map_rows(_, _, _, _)
map_rows(self, data, output, y) ==
    LET bytes_per_row == self.width * Bitmapper_get_bytes_per_pixel(self)
        row_start     == y * bytes_per_row
        row_end       == row_start + bytes_per_row
    IN  IF y >= self.height THEN Ok(output)
        ELSE IF row_end > Len(data) THEN Err("Insufficient data for row")
        ELSE LET r == map_row(self, Slice(data, row_start, row_end), output,
                              y * self.width * 4, 0)
             IN  IF ~r.ok THEN r ELSE map_rows(self, data, r.data, y + 1)

map_sequential_pixels(self, data) ==
    map_rows(self, data, [i \in 1..(self.width * self.height * 4) |-> 0], 0)

\* the two loops of de_palette from pixel px_pos on
RECURSIVE DePaletteLoop(_, _, _, _, _)
DePaletteLoop(input, output, npixels, palette, px_pos) ==
    IF px_pos >= npixels THEN output
    ELSE LET color_idx == At(input, px_pos) * 3
             px == IF color_idx + 2 < Len(palette)
                   THEN <<At(palette, color_idx), At(palette, color_idx + 1),
                          At(palette, color_idx + 2), 255>>
                   ELSE <<0, 0, 0, 255>>
         IN  DePaletteLoop(input, PutAll(output, px_pos * 4, px), npixels, palette,
                           px_pos + 1)

\* de_palette returns nothing: its result is the output buffer it has filled
de_palette(input, output, width, height, palette) ==
    DePaletteLoop(input, output, width * height, palette, 0)

\* data.chunks_exact(n): the whole chunks of n bytes, a rest is left out
ChunksExact(data, n) ==
    [k \in 1..(Len(data) \div n) |-> Slice(data, (k - 1) * n, k * n)]

\* the pixels written one after the other into the output vector
RECURSIVE Concat(_, _)
Concat(pixels, k) ==
    IF k > Len(pixels) THEN <<>> ELSE pixels[k] \o Concat(pixels, k + 1)

convert_to_rgba(data, width, height, color_type, bit_depth, palette) ==
    LET gray(c)   == <<c[1], c[1], c[1], 255>>
        graya(c)  == <<c[1], c[1], c[1], c[2]>>
        rgb(c)    == <<c[1], c[2], c[3], 255>>
        pal(c)    == IF c[1] * 3 + 2 < Len(palette[1])
                     THEN <<At(palette[1], c[1] * 3), At(palette[1], c[1] * 3 + 1),
                            At(palette[1], c[1] * 3 + 2), 255>>
                     ELSE <<0, 0, 0, 255>>
        rgb16(c)  == <<c[1], c[3], c[5], 255>>
        rgba16(c) == <<c[1], c[3], c[5], c[7]>>
        chunks(n) == ChunksExact(data, n)
    IN  IF color_type = COLORTYPE_GRAYSCALE /\ bit_depth = 8
        THEN Concat([k \in DOMAIN chunks(1) |-> gray(chunks(1)[k])], 1)
        ELSE IF color_type = COLORTYPE_ALPHA /\ bit_depth = 8
        THEN Concat([k \in DOMAIN chunks(2) |-> graya(chunks(2)[k])], 1)
        ELSE IF color_type = COLORTYPE_COLOR /\ bit_depth = 8
        THEN Concat([k \in DOMAIN chunks(3) |-> rgb(chunks(3)[k])], 1)
        ELSE IF color_type = COLORTYPE_COLOR_ALPHA /\ bit_depth = 8
        THEN data
        ELSE IF color_type = COLORTYPE_PALETTE_COLOR /\ bit_depth = 8
        THEN IF palette = <<>> THEN <<>>
             ELSE Concat([k \in DOMAIN chunks(1) |-> pal(chunks(1)[k])], 1)
        ELSE IF color_type = COLORTYPE_COLOR /\ bit_depth = 16
        THEN Concat([k \in DOMAIN chunks(6) |-> rgb16(chunks(6)[k])], 1)
        ELSE IF color_type = COLORTYPE_COLOR_ALPHA /\ bit_depth = 16
        THEN Concat([k \in DOMAIN chunks(8) |-> rgba16(chunks(8)[k])], 1)
        ELSE [i \in 1..(width * height * 4) |-> 0]

---------------------------------------------------------------------------
(* Pixel mapping calls on one image *)

MaxMapWidth == 2
MaxPaletteEntries == 2

\* a palette of n entries, entry k being (10k+1, 10k+2, 10k+3): no entry is black
PaletteOf(n) == [i \in 1..(3 * n) |-> 10 * ((i - 1) \div 3) + ((i - 1) % 3) + 1]

MapNone == [ok |-> FALSE, data |-> <<>>, err |-> "not called"]
NoOutput == <<0 - 1>>

MapIdle ==
    /\ bm = [width |-> 0, height |-> 0, color_type |-> 0, bit_depth |-> 0,
             palette |-> <<>>, trans_color |-> <<>>]
    /\ bdata = <<>>
    /\ bmapped = MapNone
    /\ bdepal = NoOutput
    /\ brgba = NoOutput

\* Bitmapper::new, then set_palette and set_trans_color or not
MapInit ==
    /\ \E w \in 1..MaxMapWidth, ct \in {COLORTYPE_PALETTE_COLOR, COLORTYPE_GRAYSCALE},
          pal \in {<<>>} \cup {<<PaletteOf(n)>> : n \in 1..MaxPaletteEntries},
          tr \in {<<>>, <<<<128>>>>} :
          bm = [width |-> w, height |-> 1, color_type |-> ct, bit_depth |-> 8,
                palette |-> pal, trans_color |-> tr]
    /\ bdata \in [1..bm.width -> 0..(MaxPaletteEntries + 1)]
    /\ bmapped = MapNone
    /\ bdepal = NoOutput
    /\ brgba = NoOutput

\* bitmapper.map_pixels(&data, false)
MapPixels ==
    /\ bm.width > 0
    /\ bmapped = MapNone
    /\ bmapped' = map_sequential_pixels(bm, bdata)
    /\ UNCHANGED <<bm, bdata, bdepal, brgba>>

\* de_palette(&data, &mut output, width, height, &palette) on a zeroed output
DePalette ==
    /\ bm.width > 0
    /\ bm.palette # <<>>
    /\ bdepal = NoOutput
    /\ bdepal' = de_palette(bdata, [i \in 1..(bm.width * bm.height * 4) |-> 0],
                            bm.width, bm.height, bm.palette[1])
    /\ UNCHANGED <<bm, bdata, bmapped, brgba>>

\* convert_to_rgba(&data, width, height, color_type, bit_depth, palette)
ConvertToRgba ==
    /\ bm.width > 0
    /\ brgba = NoOutput
    /\ brgba' = convert_to_rgba(bdata, bm.width, bm.height, bm.color_type,
                                bm.bit_depth, bm.palette)
    /\ UNCHANGED <<bm, bdata, bmapped, bdepal>>

---------------------------------------------------------------------------
(* Filter choice (src/src/filter_extensible.rs) *)
(* calculate_entropy is a float; the order of two entropies is decided     *)
(* here in integers.  For a buffer of n bytes whose distinct values occur  *)
(* c1, c2, .. times, H = log2(n) - log2(c1^c1 * c2^c2 * ..) / n, so among   *)
(* buffers of one length the entropy is the greater where the product      *)
(* P = c1^c1 * c2^c2 * .. is the smaller, H > 1 iff n^n > 2^n * P, and     *)
(* H > 0 iff P < n^n.                                                      *)

\* histogram[byte] of calculate_entropy
Histogram(data, byte) == Cardinality({i \in 1..Len(data) : data[i] = byte})

RECURSIVE PowProduct(_, _)
PowProduct(data, bytes) ==
    IF bytes = {} THEN 1
    ELSE LET b == CHOOSE b \in bytes : TRUE
             c == Histogram(data, b)
         IN  (c ^ c) * PowProduct(data, bytes \ {b})

\* a compression ratio: the entropy of a buffer, given by its length n and
\* its product P, or the constant 1.0 / 0.0
Entropy(data) ==
    [kind |-> "entropy", n |-> Len(data),
     P |-> PowProduct(data, {data[i] : i \in 1..Len(data)})]
RatioOne  == [kind |-> "one"]
RatioZero == [kind |-> "zero"]

\* a > b on ratios; entropies compared are of buffers of one length
RatioGreater(a, b) ==
    LET pos(r) == r.kind = "one" \/ (r.kind = "entropy" /\ r.n > 0 /\ r.P < r.n ^ r.n)
        gt1(r) == r.kind = "entropy" /\ r.n > 0 /\ r.n ^ r.n > (2 ^ r.n) * r.P
        lt1(r) == r.kind = "zero" \/
                  (r.kind = "entropy" /\ (r.n = 0 \/ r.n ^ r.n < (2 ^ r.n) * r.P))
    IN  IF b.kind = "zero" THEN pos(a)
        ELSE IF a.kind = "zero" THEN FALSE
        ELSE IF b.kind = "one" THEN gt1(a)
        ELSE IF a.kind = "one" THEN lt1(b)
        ELSE a.P < b.P

\* StandardFilter::calculate_compression_ratio
calculate_compression_ratio(ft, data, ctx) ==
    LET r == StandardFilter_apply(ft, data, ctx)
    IN  IF r.ok THEN Entropy(r.data) ELSE RatioOne

\* FilterRegistry::choose_best_filter walks a HashMap, whose order is not
\* fixed, and keeps the first filter whose ratio is greater than every
\* ratio before it, starting from 0.0: the result is any filter of the
\* greatest ratio, or none when no ratio is above 0.0.  The set holds the
\* filter types it can return, and NoFilter for None.
NoFilter == 0 - 1
FilterRegistry_choose_best_filter(data, ctx) ==
    LET ratio(ft) == calculate_compression_ratio(ft, data, ctx)
        best == {ft \in FilterTypes :
                    /\ RatioGreater(ratio(ft), RatioZero)
                    /\ \A g \in FilterTypes : ~RatioGreater(ratio(g), ratio(ft))}
    IN  IF best = {} THEN {NoFilter} ELSE best

\* FilterProcessor::apply_filter: the registry holds the five standard filters
FilterProcessor_apply_filter(ft, data, ctx) ==
    IF ft \in FilterTypes THEN StandardFilter_apply(ft, data, ctx)
    ELSE Err("Filter type not found")

---------------------------------------------------------------------------
(* Packing (src/src/png_packer.rs) *)

\* PackerOptions::default().deflate_chunk_size
DefaultChunkSize == 32 * 1024

PNGPacker_calculate_bytes_per_row(options) ==
    LET bits_per_pixel ==
            IF options.color_type = COLORTYPE_GRAYSCALE THEN options.bit_depth
            ELSE IF options.color_type = COLORTYPE_COLOR THEN options.bit_depth * 3
            ELSE IF options.color_type = COLORTYPE_PALETTE_COLOR THEN options.bit_depth
            ELSE IF options.color_type = COLORTYPE_ALPHA THEN options.bit_depth * 2
            ELSE IF options.color_type = COLORTYPE_COLOR_ALPHA THEN options.bit_depth * 4
            ELSE 8
    IN  (options.width * bits_per_pixel + 7) \div 8

PNGPacker_get_bytes_per_pixel(options) ==
    IF options.color_type = COLORTYPE_GRAYSCALE THEN 1
    ELSE IF options.color_type = COLORTYPE_COLOR THEN 3
    ELSE IF options.color_type = COLORTYPE_PALETTE_COLOR THEN 1
    ELSE IF options.color_type = COLORTYPE_ALPHA THEN 2
    ELSE IF options.color_type = COLORTYPE_COLOR_ALPHA THEN 4
    ELSE 4

\* the FilterContext of PNGPacker::choose_best_filter and ::apply_filter
PackerContext(options, row_index) ==
    [width           |-> options.width,
     height          |-> options.height,
     bytes_per_pixel |-> PNGPacker_get_bytes_per_pixel(options),
     row_index       |-> row_index]

\* the filter types PNGPacker::choose_best_filter can return for a row
PNGPacker_choose_best_filter(options, row_data, row_index) ==
    {IF ft = NoFilter THEN FILTER_NONE ELSE ft :
        ft \in FilterRegistry_choose_best_filter(row_data, PackerContext(options, row_index))}

\* PNGPacker::apply_filter: the row alone is handed to the filter
PNGPacker_apply_filter(options, row_data, filter_type, row_index) ==
    FilterProcessor_apply_filter(filter_type, row_data, PackerContext(options, row_index))

\* flate2's DeflateEncoder writes a raw DEFLATE stream (RFC 1951): no zlib
\* header before it, no Adler-32 after it.  Which block type the encoder
\* picks at a level is not modelled: the stream is written here as one final
\* stored block (header byte 1, LEN, NLEN, the bytes).  Whatever the block
\* type, the first byte of a one-block stream has BFINAL = 1 in its lowest
\* bit, as it has here.
compress_data(data) ==
    LET len == Len(data)
    IN  <<1, len % 256, len \div 256, 255 - (len % 256), 255 - (len \div 256)>> \o data

InsufficientPixelData == "Insufficient pixel data"

\* process_pixel_data from row y on: the set of results the call can have,
\* one for every choice of filters
RECURSIVE ProcessRows(_, _, _, _)
ProcessRows(options, data, y, processed_data) ==
    LET bytes_per_row == PNGPacker_calculate_bytes_per_row(options)
        row_start     == y * bytes_per_row
        row_end       == row_start + bytes_per_row
        row_data      == Slice(data, row_start, row_end)
    IN  IF y >= options.height THEN {Ok(compress_data(processed_data))}
        ELSE IF row_end > Len(data) THEN {Err(InsufficientPixelData)}
        ELSE UNION { LET filtered == PNGPacker_apply_filter(options, row_data, best, y)
                     IN  IF ~filtered.ok THEN {Err(filtered.err)}
                         ELSE ProcessRows(options, data, y + 1,
                                  processed_data \o <<best>> \o filtered.data) :
                     best \in PNGPacker_choose_best_filter(options, row_data, y) }

process_pixel_data(options, data) == ProcessRows(options, data, 0, <<>>)

write_ihdr_chunk(options, output) ==
    write_chunk(output, TYPE_IHDR,
        IhdrBytes(options.width, options.height, options.bit_depth, options.color_type))

\* for chunk in data.chunks(chunk_size) { write_chunk(output, TYPE_IDAT, chunk) }
RECURSIVE write_idat_chunks(_, _, _, _)
write_idat_chunks(output, data, chunk_size, from) ==
    IF from >= Len(data) THEN output
    ELSE LET to  == IF from + chunk_size < Len(data) THEN from + chunk_size ELSE Len(data)
             out == write_chunk(output, TYPE_IDAT, Slice(data, from, to))
         IN  Forced(out, write_idat_chunks(out, data, chunk_size, to))

write_iend_chunk(output) == write_chunk(output, TYPE_IEND, <<>>)

---------------------------------------------------------------------------
(* The decoder behind PNG::parse *)
(* PNG::parse hands the bytes to the png crate, which is not part of the   *)
(* repository.  It is taken to decode as the PNG standard lays down: every *)
(* chunk's CRC is checked, IHDR comes first and is legal, the IDAT data is *)
(* a zlib stream (RFC 1950) of filtered scanlines.  The streams decoded    *)
(* here are not interlaced and have 8-bit grey or RGBA pixels, on which    *)
(* Transformations::EXPAND changes nothing.                                *)

LegalDepths(color_type) ==
    IF color_type = COLORTYPE_GRAYSCALE THEN {1, 2, 4, 8, 16}
    ELSE IF color_type = COLORTYPE_PALETTE_COLOR THEN {1, 2, 4, 8}
    ELSE IF color_type \in {COLORTYPE_COLOR, COLORTYPE_ALPHA, COLORTYPE_COLOR_ALPHA}
    THEN {8, 16}
    ELSE {}

LegalHeader(h) ==
    /\ h.width > 0 /\ h.height > 0
    /\ h.bit_depth \in LegalDepths(h.color_type)
    /\ h.compression_method = 0 /\ h.filter_method = 0
    /\ h.interlace_method \in {0, 1}

\* the chunk of the given length at byte offset: its type, data and the
\* offset after it, when it lies within the stream and its CRC is right
ChunkOfLength(data, offset, length) ==
    IF offset + 12 + length > Len(data) THEN Err("unexpected end of stream")
    ELSE IF crc32(Slice(data, offset + 4, offset + 8 + length))
              # Slice(data, offset + 8 + length, offset + 12 + length)
    THEN Err("CRC error")
    ELSE Ok([type |-> Slice(data, offset + 4, offset + 8),
             data |-> Slice(data, offset + 8, offset + 8 + length),
             next |-> offset + 12 + length])

ChunkAt(data, offset) ==
    IF offset + 12 > Len(data) THEN Err("unexpected end of stream")
    ELSE ChunkOfLength(data, offset, from_be_bytes(Slice(data, offset, offset + 4)))

\* Decoder::read_info: the chunks up to the first IDAT; ReadInfoStep takes
\* the chunk c read at offset
RECURSIVE ReadInfoLoop(_, _, _)
ReadInfoStep(data, offset, info, c) ==
    IF ~c.ok THEN c
    ELSE IF info.ihdr = <<>>
    THEN IF c.data.type # TYPE_IHDR THEN Err("IHDR is not the first chunk")
         ELSE LET h == IHDRData_from_bytes(c.data.data)
              IN  IF ~h.ok \/ ~LegalHeader(h.data) THEN Err("invalid IHDR")
                  ELSE ReadInfoLoop(data, c.data.next, [info EXCEPT !.ihdr = <<h.data>>])
    ELSE IF c.data.type = TYPE_IDAT THEN Ok([info EXCEPT !.idat_offset = offset])
    ELSE IF c.data.type = TYPE_IEND THEN Err("no IDAT chunk")
    ELSE ReadInfoLoop(data, c.data.next,
             IF c.data.type = TYPE_PLTE THEN [info EXCEPT !.palette = <<c.data.data>>]
             ELSE IF c.data.type = TYPE_tRNS THEN [info EXCEPT !.trns = <<c.data.data>>]
             ELSE IF c.data.type = TYPE_gAMA
             THEN [info EXCEPT !.gamma = <<from_be_bytes(c.data.data)>>]
             ELSE info)

ReadInfoLoop(data, offset, info) ==
    ReadInfoStep(data, offset, info, ChunkAt(data, offset))

Decoder_read_info(data) ==
    ReadInfoLoop(data, Len(PNG_SIGNATURE),
        [ihdr |-> <<>>, palette |-> <<>>, trns |-> <<>>, gamma |-> <<>>, idat_offset |-> 0])

\* the data of the run of IDAT chunks from offset on; IdatStep takes the
\* chunk c read at offset
RECURSIVE IdatData(_, _, _)
IdatStep(data, acc, c) ==
    IF ~c.ok THEN c
    ELSE IF c.data.type # TYPE_IDAT THEN Ok(acc)
    ELSE IdatData(data, c.data.next, acc \o c.data.data)

IdatData(data, offset, acc) == IdatStep(data, Forced(acc, acc), ChunkAt(data, offset))

\* Adler-32 of the bytes, as its two 16-bit halves <<b, a>>
RECURSIVE Adler32(_, _, _, _)
Adler32(data, i, a, b) ==
    IF i > Len(data) THEN <<b, a>>
    ELSE LET a2 == (a + data[i]) % 65521
             b2 == (b + a2) % 65521
         IN  Forced(<<a2, b2>>, Adler32(data, i + 1, a2, b2))

\* inflate of a zlib stream: the two header bytes, stored blocks, Adler-32
RECURSIVE InflateStored(_, _, _)
InflateStored(z, offset, acc) ==
    IF offset + 5 > Len(z) THEN Err("unexpected end of zlib stream")
    ELSE LET header == At(z, offset)
             len    == At(z, offset + 1) + 256 * At(z, offset + 2)
             nlen   == At(z, offset + 3) + 256 * At(z, offset + 4)
         IN  IF (header \div 2) % 4 # 0 THEN Err("not a stored block")
             ELSE IF len + nlen # 65535 \/ offset + 5 + len > Len(z)
             THEN Err("invalid stored block")
             ELSE LET more == acc \o Slice(z, offset + 5, offset + 5 + len)
                  IN  IF header % 2 = 1
                      THEN Ok([data |-> more, next |-> offset + 5 + len])
                      ELSE Forced(more, InflateStored(z, offset + 5 + len, more))

\* the Adler-32 after the last block, r the result of the inflate
ZlibTrailer(z, r) ==
    IF ~r.ok THEN r
    ELSE IF r.data.next + 4 > Len(z) THEN Err("unexpected end of zlib stream")
    ELSE IF Adler32(r.data.data, 1, 1, 0)
              # <<At(z, r.data.next) * 256 + At(z, r.data.next + 1),
                  At(z, r.data.next + 2) * 256 + At(z, r.data.next + 3)>>
    THEN Err("Adler-32 mismatch")
    ELSE Ok(r.data.data)

zlib_decompress(z) ==
    IF Len(z) < 2 THEN Err("unexpected end of zlib stream")
    ELSE LET cmf == At(z, 0)
             flg == At(z, 1)
         IN  IF cmf % 16 # 8 \/ cmf \div 16 > 7 \/ (cmf * 256 + flg) % 31 # 0
                \/ (flg \div 32) % 2 = 1
             THEN Err("invalid zlib header")
             ELSE ZlibTrailer(z, InflateStored(z, 2, <<>>))

\* one scanline rebuilt from its filtered bytes (PNG standard, section 9):
\* byte x plus the prediction from the rebuilt bytes left, above, above-left
RECURSIVE ReconRow(_, _, _, _, _)
ReconRow(ft, raw, prior, bpp, recon) ==
    LET x    == Len(recon) + 1
        a    == IF x > bpp THEN recon[x - bpp] ELSE 0
        b    == prior[x]
        c    == IF x > bpp THEN prior[x - bpp] ELSE 0
        pred == IF ft = FILTER_SUB THEN a
                ELSE IF ft = FILTER_UP THEN b
                ELSE IF ft = FILTER_AVERAGE THEN (a + b) \div 2
                ELSE IF ft = FILTER_PAETH THEN paeth_predictor(a, b, c)
                ELSE 0
    IN  IF x > Len(raw) THEN recon
        ELSE ReconRow(ft, raw, prior, bpp, Append(recon, (raw[x] + pred) % 256))

RECURSIVE Unfilter(_, _, _, _, _, _)
Unfilter(lines, bpr, bpp, y, prior, out) ==
    IF y * (bpr + 1) >= Len(lines) THEN Ok(out)
    ELSE LET ft  == At(lines, y * (bpr + 1))
             raw == Slice(lines, y * (bpr + 1) + 1, (y + 1) * (bpr + 1))
         IN  IF ft \notin FilterTypes THEN Err("invalid filter type")
             ELSE LET row == ReconRow(ft, raw, prior, bpp, <<>>)
                  IN  Forced(row, Unfilter(lines, bpr, bpp, y + 1, row, out \o row))

\* the scanlines of a frame, lines the result of the inflate
FrameRows(h, bpr, bpp, lines) ==
    IF ~lines.ok THEN lines
    ELSE IF Len(lines.data) # h.height * (bpr + 1) THEN Err("wrong amount of image data")
    ELSE Unfilter(lines.data, bpr, bpp, 0, [i \in 1..bpr |-> 0], <<>>)

FrameData(h, bits, idat) ==
    IF ~idat.ok THEN idat
    ELSE FrameRows(h, (h.width * bits + 7) \div 8, IF bits < 8 THEN 1 ELSE bits \div 8,
                   zlib_decompress(idat.data))

\* Reader::next_frame: the image bytes, row after row
Reader_next_frame(data, info) ==
    LET h        == info.ihdr[1]
        channels == IF h.color_type = COLORTYPE_GRAYSCALE THEN 1
                    ELSE IF h.color_type = COLORTYPE_COLOR THEN 3
                    ELSE IF h.color_type = COLORTYPE_PALETTE_COLOR THEN 1
                    ELSE IF h.color_type = COLORTYPE_ALPHA THEN 2
                    ELSE 4
    IN  FrameData(h, channels * h.bit_depth, IdatData(data, info.idat_offset, <<>>))

---------------------------------------------------------------------------
(* PNG::parse (src/src/png.rs) *)

validate_png_signature(data) ==
    IF Len(data) < 8 THEN FALSE ELSE Slice(data, 0, 8) = PNG_SIGNATURE

\* bitmap.rs get_bytes_per_pixel
get_bytes_per_pixel(color_type) ==
    IF color_type = COLORTYPE_GRAYSCALE THEN 1
    ELSE IF color_type = COLORTYPE_COLOR THEN 3
    ELSE IF color_type = COLORTYPE_PALETTE_COLOR THEN 1
    ELSE IF color_type = COLORTYPE_ALPHA THEN 2
    ELSE IF color_type = COLORTYPE_COLOR_ALPHA THEN 4
    ELSE 4

\* PNG::new(None): the fields parse can touch
PNG_new ==
    [width              |-> 0,
     height             |-> 0,
     bit_depth          |-> 8,
     color_type         |-> 2,
     compression_method |-> 0,
     filter_method      |-> 0,
     interlace_method   |-> 0,
     palette            |-> <<>>,
     pixel_data         |-> <<>>,
     rgba_data          |-> <<>>,
     gamma              |-> <<>>,
     trans_color        |-> <<>>,
     alpha              |-> FALSE,
     has_ihdr           |-> FALSE,
     has_iend           |-> FALSE,
     interlace          |-> FALSE,
     bpp                |-> 4,
     depth              |-> 8]

\* the assignments of parse between read_info and next_frame
WithInfo(self, info) ==
    LET h == info.ihdr[1]
    IN  [self EXCEPT
            !.width              = h.width,
            !.height             = h.height,
            !.bit_depth          = h.bit_depth,
            !.color_type         = h.color_type,
            !.compression_method = h.compression_method,
            !.filter_method      = h.filter_method,
            !.interlace_method   = h.interlace_method,
            !.interlace          = h.interlace_method # 0,
            !.bpp                = get_bytes_per_pixel(h.color_type),
            !.depth              = h.bit_depth,
            !.palette            = IF info.palette # <<>> THEN info.palette ELSE @,
            !.trans_color        = IF info.trns # <<>> THEN info.trns ELSE @,
            !.alpha              = IF info.trns # <<>> THEN TRUE ELSE @,
            !.gamma              = IF info.gamma # <<>> THEN info.gamma ELSE @]

\* parse after next_frame has returned frame; self carries the header
ParseFrame(self, frame) ==
    IF ~frame.ok
    THEN [ok |-> FALSE, err |-> "Failed to read PNG frame", self |-> self]
    ELSE [ok |-> TRUE, err |-> "",
          self |-> [self EXCEPT
             !.rgba_data  = <<convert_to_rgba(frame.data, self.width, self.height,
                                self.color_type, self.bit_depth, self.palette)>>,
             !.pixel_data = <<frame.data>>,
             !.has_ihdr   = TRUE,
             !.has_iend   = TRUE]]

\* parse after read_info has returned info
ParseInfo(self, data, info) ==
    IF ~info.ok
    THEN [ok |-> FALSE, err |-> "Failed to read PNG info", self |-> self]
    ELSE ParseFrame(WithInfo(self, info.data), Reader_next_frame(data, info.data))

\* PNG::parse(&mut self, data, None): the result and the object it leaves
PNG_parse(self, data) ==
    IF ~validate_png_signature(data)
    THEN [ok |-> FALSE, err |-> "Invalid PNG signature", self |-> self]
    ELSE ParseInfo(self, data, Decoder_read_info(data))

---------------------------------------------------------------------------
(* One pack call, step by step, and the parse of what it returns *)

MaxPackWidth  == 2
MaxPackHeight == 2
SmallChunkSize == 4
PackBytes == {0, 255}

PackOptions(w, h, bd, ct, cs) ==
    [width |-> w, height |-> h, bit_depth |-> bd, color_type |-> ct,
     deflate_chunk_size |-> cs]

\* the calls made: grey and RGBA images with a buffer of the right size,
\* the same with a buffer one byte short, and options no PNG can have
\* (zero width, bit depth 3, colour type 5, chunk size 0)
PackInputs ==
    LET grey == { [options |-> PackOptions(w, h, 8, COLORTYPE_GRAYSCALE, cs), data |-> d] :
                    w \in 1..MaxPackWidth, h \in 1..MaxPackHeight,
                    cs \in {DefaultChunkSize, SmallChunkSize},
                    d \in SeqsUpTo(PackBytes, MaxPackWidth * MaxPackHeight) }
        rgba == { [options |-> PackOptions(1, 1, 8, COLORTYPE_COLOR_ALPHA, DefaultChunkSize),
                   data |-> d] :
                    d \in {<<10, 20, 30, 255>>, <<0, 0, 0, 0>>, <<10, 20, 30>>, <<>>} }
        bad  == { [options |-> o, data |-> <<0>>] :
                    o \in { PackOptions(0, 1, 8, COLORTYPE_GRAYSCALE, DefaultChunkSize),
                            PackOptions(1, 1, 3, COLORTYPE_GRAYSCALE, DefaultChunkSize),
                            PackOptions(1, 1, 8, 5, DefaultChunkSize),
                            PackOptions(1, 1, 8, COLORTYPE_GRAYSCALE, 0) } }
    IN  {i \in grey : Len(i.data) \in {i.options.width * i.options.height,
                                       i.options.width * i.options.height - 1}}
           \cup rgba \cup bad

NoPackResult == [ok |-> FALSE, data |-> <<>>, err |-> "not returned"]

CodecIdle ==
    /\ koptions = PackOptions(0, 0, 0, 0, 0)
    /\ kdata = <<>>
    /\ koutput = <<>>
    /\ kprocessed = <<>>
    /\ kresult = NoPackResult
    /\ kpng = PNG_new
    /\ kparse = NotParsed
    /\ kstage = "idle"

CodecInit ==
    /\ \E i \in PackInputs : koptions = i.options /\ kdata = i.data
    /\ koutput = <<>>
    /\ kprocessed = <<>>
    /\ kresult = NoPackResult
    /\ kpng = PNG_new
    /\ kparse = NotParsed
    /\ kstage = "called"

\* output.extend_from_slice(&PNG_SIGNATURE)
PackSignature ==
    /\ kstage = "called"
    /\ koutput' = koutput \o PNG_SIGNATURE
    /\ kstage' = "signature"
    /\ UNCHANGED <<koptions, kdata, kprocessed, kresult, kpng, kparse>>

\* self.write_ihdr_chunk(&mut output)?
PackIhdr ==
    /\ kstage = "signature"
    /\ koutput' = write_ihdr_chunk(koptions, koutput)
    /\ kstage' = "ihdr"
    /\ UNCHANGED <<koptions, kdata, kprocessed, kresult, kpng, kparse>>

\* let processed_data = self.process_pixel_data(data)?  On an error pack
\* returns it; koutput keeps what the local buffer held at that moment
PackPixels ==
    /\ kstage = "ihdr"
    /\ \E r \in process_pixel_data(koptions, kdata) :
          IF r.ok
          THEN kprocessed' = r.data /\ kresult' = kresult /\ kstage' = "processed"
          ELSE kprocessed' = kprocessed /\ kresult' = r /\ kstage' = "failed"
    /\ UNCHANGED <<koptions, kdata, koutput, kpng, kparse>>

\* self.write_idat_chunks(&mut output, &processed_data)?; slice::chunks
\* panics on a chunk size of 0
PackIdat ==
    /\ kstage = "processed"
    /\ IF koptions.deflate_chunk_size = 0
       THEN koutput' = koutput /\ kstage' = "panicked"
       ELSE /\ koutput' = write_idat_chunks(koutput, kprocessed,
                                            koptions.deflate_chunk_size, 0)
            /\ kstage' = "idat"
    /\ UNCHANGED <<koptions, kdata, kprocessed, kresult, kpng, kparse>>

\* self.write_iend_chunk(&mut output)?; Ok(output)
PackIend ==
    /\ kstage = "idat"
    /\ koutput' = write_iend_chunk(koutput)
    /\ kresult' = Ok(koutput')
    /\ kstage' = "done"
    /\ UNCHANGED <<koptions, kdata, kprocessed, kpng, kparse>>

\* PNG::new(None).parse(&packed, None) on the bytes pack returned
PngParse ==
    /\ kstage = "done"
    /\ LET r == PNG_parse(kpng, kresult.data)
       IN  /\ kpng' = r.self
           /\ kparse' = [ok |-> r.ok, err |-> r.err]
    /\ kstage' = "parsed"
    /\ UNCHANGED <<koptions, kdata, koutput, kprocessed, kresult>>

---------------------------------------------------------------------------
(* Inflating IDAT payloads (src/src/sync_inflate.rs) *)
(* SyncInflate::inflate hands the bytes to flate2's DeflateDecoder, which  *)
(* is not part of the repository.  It is taken to read a raw DEFLATE       *)
(* stream as RFC 1951 lays down: blocks up to the first one with BFINAL    *)
(* set, bytes after that block left unread, block type 3 an error.  Only   *)
(* stored blocks are decoded here; the streams inflated below hold no      *)
(* other kind.  A stream that ends before its final block is complete is   *)
(* reported differently by different versions of the library: as an error, *)
(* or as the bytes decoded so far.  Both are results here.                 *)

DecompressionError == "Decompression error"

\* what read_to_end gives on a stream cut short after out was decoded
Truncated(out) == {Ok(out), Err(DecompressionError)}

\* the blocks of z from its 0-based position pos on, out the bytes so far
RECURSIVE InflateBlocks(_, _, _)
InflateBlocks(z, pos, out) ==
    IF pos >= Len(z) THEN Truncated(out)
    ELSE LET bfinal == At(z, pos) % 2
             btype  == (At(z, pos) \div 2) % 4
         IN  IF btype # 0 THEN {Err(DecompressionError)}
             ELSE IF pos + 5 > Len(z) THEN Truncated(out)
             ELSE LET len  == At(z, pos + 1) + 256 * At(z, pos + 2)
                      nlen == At(z, pos + 3) + 256 * At(z, pos + 4)
                  IN  IF len + nlen # 65535 THEN {Err(DecompressionError)}
                      ELSE IF pos + 5 + len > Len(z)
                      THEN Truncated(out \o Slice(z, pos + 5, Len(z)))
                      ELSE IF bfinal = 1
                      THEN {Ok(out \o Slice(z, pos + 5, pos + 5 + len))}
                      ELSE InflateBlocks(z, pos + 5 + len,
                                         out \o Slice(z, pos + 5, pos + 5 + len))

\* SyncInflate::inflate: the results the call can have
SyncInflate_inflate(data) == InflateBlocks(data, 0, <<>>)

ChunkedInflate_new == [chunks |-> <<>>, current_chunk |-> 0]

ChunkedInflate_add_chunk(self, data) == [self EXCEPT !.chunks = Append(@, data)]

\* inflate_all from chunk k on: every chunk is inflated on its own, by a
\* new SyncInflate, and the first error is returned
RECURSIVE InflateAllFrom(_, _, _)
InflateAllFrom(self, k, result) ==
    IF k > Len(self.chunks) THEN {Ok(result)}
    ELSE UNION { IF ~decompressed.ok THEN {decompressed}
                 ELSE InflateAllFrom(self, k + 1, result \o decompressed.data) :
                 decompressed \in SyncInflate_inflate(self.chunks[k]) }

ChunkedInflate_inflate_all(self) == InflateAllFrom(self, 1, <<>>)

---------------------------------------------------------------------------
(* One compressed stream written as IDAT chunks and inflated again *)

MinIdatChunk == 4
MaxIdatChunk == 6
MaxScanlineBytes == 3
ScanlineBytes == {0, 255}

NotInflated == [ok |-> FALSE, data |-> <<>>, err |-> "not called"]

IdatIdle ==
    /\ zdata = <<>>
    /\ zsize = 0
    /\ zstream = <<>>
    /\ zoutput = <<>>
    /\ zoffset = 0
    /\ zinflate = ChunkedInflate_new
    /\ zresult = NotInflated
    /\ zstage = "idle"

\* the filtered scanlines have been compressed; the chunk size is the
\* default one or a small one
IdatInit ==
    /\ zdata \in SeqsUpTo(ScanlineBytes, MaxScanlineBytes)
    /\ zsize \in (MinIdatChunk..MaxIdatChunk) \cup {DefaultChunkSize}
    /\ zstream = compress_data(zdata)
    /\ zoutput = <<>>
    /\ zoffset = 0
    /\ zinflate = ChunkedInflate_new
    /\ zresult = NotInflated
    /\ zstage = "compressed"

\* self.write_idat_chunks(&mut output, &processed_data)
IdatWrite ==
    /\ zstage = "compressed"
    /\ zoutput' = write_idat_chunks(zoutput, zstream, zsize, 0)
    /\ zstage' = "written"
    /\ UNCHANGED <<zdata, zsize, zstream, zoffset, zinflate, zresult>>

\* inflate.add_chunk(&chunk.data) for the next IDAT chunk of the output
IdatAddChunk ==
    /\ zstage = "written"
    /\ zoffset < Len(zoutput)
    /\ LET c == ChunkAt(zoutput, zoffset)
       IN  /\ c.ok
           /\ zinflate' = ChunkedInflate_add_chunk(zinflate, c.data.data)
           /\ zoffset' = c.data.next
    /\ UNCHANGED <<zdata, zsize, zstream, zoutput, zresult, zstage>>

\* inflate.inflate_all() once every chunk has been added
IdatInflateAll ==
    /\ zstage = "written"
    /\ zoffset >= Len(zoutput)
    /\ zresult' \in ChunkedInflate_inflate_all(zinflate)
    /\ zstage' = "inflated"
    /\ UNCHANGED <<zdata, zsize, zstream, zoutput, zoffset, zinflate>>

---------------------------------------------------------------------------
(* Bit depth conversion (src/src/bitmap.rs) *)

Panic == [panic |-> TRUE, output |-> <<>>]
Returned(output) == [panic |-> FALSE, output |-> output]

\* 1u16 << depth: with overflow checks a shift by 16 or more panics (0 - 1
\* here), without them the shift count is taken modulo 16
Shl16(depth, checks) ==
    IF depth < 16 THEN 2 ^ depth
    ELSE IF checks THEN 0 - 1
    ELSE 2 ^ (depth % 16)

\* value * max_output / max_input in u16: 0 - 1 where the multiplication
\* overflows under overflow checks or max_input is 0
ScaleU16(value, max_input, max_output, checks) ==
    IF max_input = 0 THEN 0 - 1
    ELSE IF value * max_output > 65535 /\ checks THEN 0 - 1
    ELSE ((value * max_output) % 65536) \div max_input

\* scale_depth on a buffer of width * height samples; checks says whether
\* the build has overflow checks (debug) or not (release)
scale_depth(input, output, width, height, input_depth, output_depth, checks) ==
    LET input_bpp  == IF input_depth <= 8 THEN 1 ELSE 2
        output_bpp == IF output_depth <= 8 THEN 1 ELSE 2
        shl_in     == Shl16(input_depth, checks)
        shl_out    == Shl16(output_depth, checks)
        max_input  == shl_in - 1
        max_output == shl_out - 1
        n          == width * height
        value(k)   == IF input_depth <= 8 THEN At(input, k * input_bpp)
                      ELSE At(input, k * input_bpp) * 256 + At(input, k * input_bpp + 1)
        scaled(k)  == ScaleU16(value(k), max_input, max_output, checks)
        byte(i)    == LET k == i \div output_bpp
                      IN  IF output_bpp = 1 THEN scaled(k) % 256
                          ELSE IF i % 2 = 0 THEN scaled(k) \div 256
                          ELSE scaled(k) % 256
    IN  IF shl_in < 0 \/ shl_out < 0 THEN Panic
        ELSE IF n = 0 THEN Returned(output)
        ELSE IF Len(input) < n * input_bpp \/ Len(output) < n * output_bpp THEN Panic
        ELSE IF \E k \in 0..(n - 1) : scaled(k) < 0 THEN Panic
        ELSE Returned([i \in 1..Len(output) |->
                          IF i <= n * output_bpp THEN byte(i - 1) ELSE output[i]])

---------------------------------------------------------------------------
(* One sample rescaled to 8 bits *)

BitDepths == {1, 2, 4, 8, 16}

\* the values of a depth: all of them up to 8 bits, some of the 16-bit ones
Samples(depth) ==
    IF depth <= 8 THEN 0..(2 ^ depth - 1)
    ELSE {0, 1, 128, 255, 256, 257, 32768, 65535}

NotScaled == [panic |-> FALSE, output |-> <<0 - 1>>]

ScaleIdle ==
    /\ sdepth = 0
    /\ svalue = 0
    /\ schecks = FALSE
    /\ spixel = 0 - 1
    /\ sscaled = NotScaled

ScaleInit ==
    /\ sdepth \in BitDepths
    /\ svalue \in Samples(sdepth)
    /\ schecks \in BOOLEAN
    /\ spixel = 0 - 1
    /\ sscaled = NotScaled

\* Bitmapper::scale_pixel_value on the sample, which it takes as a u8
ScalePixelValue ==
    /\ spixel = 0 - 1
    /\ svalue < 256
    /\ spixel' = scale_pixel_value([bit_depth |-> sdepth], svalue)
    /\ UNCHANGED <<sdepth, svalue, schecks, sscaled>>

\* scale_depth(&input, &mut output, 1, 1, depth, 8) on the sample
ScaleDepth ==
    /\ sscaled = NotScaled
    /\ sscaled' = scale_depth(IF sdepth <= 8 THEN <<svalue>>
                              ELSE <<svalue \div 256, svalue % 256>>,
                              <<0>>, 1, 1, sdepth, 8, schecks)
    /\ UNCHANGED <<sdepth, svalue, schecks, spixel>>

---------------------------------------------------------------------------
(* Colour to greyscale (src/src/advanced_png.rs) *)

\* (0.299 * r as f64 + 0.587 * g as f64 + 0.114 * b as f64) as u16: the sum
\* cut off towards zero.  The three factors are not exact in binary, so a
\* sum whose exact value is a whole number q may come out just below q and
\* be cut off to q - 1; the set holds the values the cast can give.
Luma(r, g, b) ==
    LET exact == 299 * r + 587 * g + 114 * b
        q     == exact \div 1000
    IN  IF exact % 1000 = 0 /\ exact > 0 THEN {q - 1, q} ELSE {q}

\* the bytes pushed for one pixel: gray.to_be_bytes() at 16 bits, else
\* (gray >> 8) as u8
GrayBytes(gray, bit_depth) ==
    IF bit_depth = 16 THEN <<gray \div 256, gray % 256>> ELSE <<(gray \div 256) % 256>>

\* the loop over data.chunks_exact(bytes_per_pixel) from chunk k on: the
\* outputs it can build
RECURSIVE GrayLoop(_, _, _, _, _)
GrayLoop(data, bit_depth, bytes_per_pixel, k, output) ==
    IF (k + 1) * bytes_per_pixel > Len(data) THEN {output}
    ELSE LET chunk == Slice(data, k * bytes_per_pixel, (k + 1) * bytes_per_pixel)
             r == IF bit_depth = 16 THEN chunk[1] * 256 + chunk[2] ELSE chunk[1]
             g == IF bit_depth = 16 THEN chunk[3] * 256 + chunk[4] ELSE chunk[2]
             b == IF bit_depth = 16 THEN chunk[5] * 256 + chunk[6] ELSE chunk[3]
         IN  UNION { GrayLoop(data, bit_depth, bytes_per_pixel, k + 1,
                              output \o GrayBytes(gray, bit_depth)) :
                     gray \in Luma(r, g, b) }

\* AdvancedPNG::rgb_to_grayscale and ::rgba_to_grayscale
AdvancedPNG_rgb_to_grayscale(self, data) ==
    {Ok(o) : o \in GrayLoop(data, self.bit_depth,
                             IF self.bit_depth = 16 THEN 6 ELSE 3, 0, <<>>)}

AdvancedPNG_rgba_to_grayscale(self, data) ==
    {Ok(o) : o \in GrayLoop(data, self.bit_depth,
                             IF self.bit_depth = 16 THEN 8 ELSE 4, 0, <<>>)}

\* ColorTypeConverter::rgb_to_grayscale and ::rgba_to_grayscale
ColorTypeConverter_rgb_to_grayscale(data, bit_depth) ==
    {Ok(o) : o \in GrayLoop(data, bit_depth, IF bit_depth = 16 THEN 6 ELSE 3, 0, <<>>)}

ColorTypeConverter_rgba_to_grayscale(data, bit_depth) ==
    {Ok(o) : o \in GrayLoop(data, bit_depth, IF bit_depth = 16 THEN 8 ELSE 4, 0, <<>>)}

---------------------------------------------------------------------------
(* One pixel converted to greyscale *)

\* the sample values of a channel
Channel(depth) == IF depth = 16 THEN {0, 255, 65535} ELSE {0, 1, 128, 255}

\* a sample as the bytes of the buffer
SampleBytes(v, depth) == IF depth = 16 THEN <<v \div 256, v % 256>> ELSE <<v>>

NotConverted == [ok |-> FALSE, data |-> <<>>, err |-> "not called"]

GrayIdle ==
    /\ gdepth = 0
    /\ galpha = FALSE
    /\ gpixel = <<>>
    /\ gadv = NotConverted
    /\ gconv = NotConverted

GrayInit ==
    /\ gdepth \in {8, 16}
    /\ galpha \in BOOLEAN
    /\ \E r \in Channel(gdepth), g \in Channel(gdepth), b \in Channel(gdepth) :
          gpixel = SampleBytes(r, gdepth) \o SampleBytes(g, gdepth) \o SampleBytes(b, gdepth)
                     \o (IF galpha THEN SampleBytes(2 ^ gdepth - 1, gdepth) ELSE <<>>)
    /\ gadv = NotConverted
    /\ gconv = NotConverted

\* AdvancedPNG's conversion of the pixel to greyscale
AdvancedToGrayscale ==
    /\ gadv = NotConverted
    /\ gadv' \in (IF galpha THEN AdvancedPNG_rgba_to_grayscale([bit_depth |-> gdepth], gpixel)
                  ELSE AdvancedPNG_rgb_to_grayscale([bit_depth |-> gdepth], gpixel))
    /\ UNCHANGED <<gdepth, galpha, gpixel, gconv>>

\* ColorTypeConverter's conversion of the pixel to greyscale
ConverterToGrayscale ==
    /\ gconv = NotConverted
    /\ gconv' \in (IF galpha THEN ColorTypeConverter_rgba_to_grayscale(gpixel, gdepth)
                   ELSE ColorTypeConverter_rgb_to_grayscale(gpixel, gdepth))
    /\ UNCHANGED <<gdepth, galpha, gpixel, gadv>>

---------------------------------------------------------------------------
(* Colour type conversion (src/src/png_packer.rs, FormatNormalizer) *)

FormatNormalizer_new(input_color_type, output_color_type, input_bit_depth, output_bit_depth) ==
    [input_color_type |-> input_color_type, output_color_type |-> output_color_type,
     input_bit_depth |-> input_bit_depth, output_bit_depth |-> output_bit_depth]

\* the loops of palette_to_rgba, grayscale_to_rgba and rgb_to_rgba: the
\* pixels made from the input are written to a zeroed output of
\* width * height * 4 bytes, each where it lies within it
FillRgba(pixels, width, height) ==
    [j \in 1..(width * height * 4) |->
        IF (j - 1) \div 4 < Len(pixels) THEN pixels[((j - 1) \div 4) + 1][((j - 1) % 4) + 1]
        ELSE 0]

FormatNormalizer_palette_to_rgba(self, data, width, height) ==
    Ok(FillRgba([i \in 1..Len(data) |-> <<data[i], data[i], data[i], 255>>], width, height))

FormatNormalizer_grayscale_to_rgba(self, data, width, height) ==
    Ok(FillRgba([i \in 1..Len(data) |-> <<data[i], data[i], data[i], 255>>], width, height))

FormatNormalizer_rgb_to_rgba(self, data, width, height) ==
    Ok(FillRgba([i \in 1..(Len(data) \div 3) |->
                    <<data[3 * i - 2], data[3 * i - 1], data[3 * i], 255>>], width, height))

FormatNormalizer_convert_to_rgba(self, data, width, height) ==
    IF self.input_color_type = COLORTYPE_GRAYSCALE
    THEN FormatNormalizer_grayscale_to_rgba(self, data, width, height)
    ELSE IF self.input_color_type = COLORTYPE_COLOR
    THEN FormatNormalizer_rgb_to_rgba(self, data, width, height)
    ELSE IF self.input_color_type = COLORTYPE_PALETTE_COLOR
    THEN FormatNormalizer_palette_to_rgba(self, data, width, height)
    ELSE Ok(data)

FormatNormalizer_convert_color_type(self, data, width, height) ==
    IF self.input_color_type = self.output_color_type THEN Ok(data)
    ELSE IF self.input_color_type = COLORTYPE_PALETTE_COLOR
            /\ self.output_color_type = COLORTYPE_COLOR_ALPHA
    THEN FormatNormalizer_palette_to_rgba(self, data, width, height)
    ELSE IF self.input_color_type = COLORTYPE_GRAYSCALE
            /\ self.output_color_type = COLORTYPE_COLOR_ALPHA
    THEN FormatNormalizer_grayscale_to_rgba(self, data, width, height)
    ELSE IF self.input_color_type = COLORTYPE_COLOR
            /\ self.output_color_type = COLORTYPE_COLOR_ALPHA
    THEN FormatNormalizer_rgb_to_rgba(self, data, width, height)
    ELSE FormatNormalizer_convert_to_rgba(self, data, width, height)

---------------------------------------------------------------------------
(* One buffer converted from a colour type to another *)

MaxNormWidth == 2
ColorTypes == {COLORTYPE_GRAYSCALE, COLORTYPE_COLOR, COLORTYPE_PALETTE_COLOR,
               COLORTYPE_ALPHA, COLORTYPE_COLOR_ALPHA}

\* samples per pixel of a colour type
Channels(color_type) ==
    IF color_type = COLORTYPE_COLOR THEN 3
    ELSE IF color_type = COLORTYPE_ALPHA THEN 2
    ELSE IF color_type = COLORTYPE_COLOR_ALPHA THEN 4
    ELSE 1

NormIdle ==
    /\ nself = FormatNormalizer_new(0, 0, 0, 0)
    /\ ndata = <<>>
    /\ nwidth = 0
    /\ nresult = NotConverted
    /\ nrgba = NoOutput

\* a row of 8-bit or 16-bit pixels of one colour type, the samples all 0 or
\* 10, 20, ..
NormInit ==
    /\ \E from \in ColorTypes, to \in ColorTypes, depth \in {8, 16} :
          nself = FormatNormalizer_new(from, to, depth, depth)
    /\ nwidth \in 1..MaxNormWidth
    /\ \E zero \in BOOLEAN :
          ndata = [i \in 1..(nwidth * Channels(nself.input_color_type)
                               * (nself.input_bit_depth \div 8)) |->
                     IF zero THEN 0 ELSE 10 * i]
    /\ nresult = NotConverted
    /\ nrgba = NoOutput

\* normalizer.convert_color_type(&data, width, 1)
NormConvertColorType ==
    /\ nresult = NotConverted
    /\ nresult' = FormatNormalizer_convert_color_type(nself, ndata, nwidth, 1)
    /\ UNCHANGED <<nself, ndata, nwidth, nrgba>>

\* convert_to_rgba(&data, width, 1, color_type, bit_depth, None)
NormConvertToRgba ==
    /\ nrgba = NoOutput
    /\ nrgba' = convert_to_rgba(ndata, nwidth, 1, nself.input_color_type,
                                nself.input_bit_depth, <<>>)
    /\ UNCHANGED <<nself, ndata, nwidth, nresult>>

---------------------------------------------------------------------------
(* AdvancedInflate (src/src/sync_inflate.rs) *)

InflateOptions(chunk_size, buffer_size, max_memory) ==
    [chunk_size |-> chunk_size, buffer_size |-> buffer_size, max_memory |-> max_memory]

\* InflateOptions::default()
InflateOptions_default == InflateOptions(32 * 1024, 64 * 1024, 16 * 1024 * 1024)

AdvancedInflate_new(options) == [options |-> options, buffer |-> <<>>, memory_usage |-> 0]

\* what a call leaves and returns
Outcome(self, result) == [self |-> self, result |-> result]

Min(a, b) == IF a < b THEN a ELSE b

\* the while loop of AdvancedInflate::inflate from offset on
RECURSIVE InflateLoop(_, _, _, _)
InflateLoop(self, data, offset, result) ==
    IF offset >= Len(data) THEN {Outcome(self, Ok(result))}
    ELSE LET chunk_size == Min(self.options.chunk_size, Len(data) - offset)
             chunk      == Slice(data, offset, offset + chunk_size)
         IN  UNION { IF ~decompressed.ok THEN {Outcome(self, decompressed)}
                     ELSE LET used == [self EXCEPT !.memory_usage = @ + Len(decompressed.data)]
                          IN  IF used.memory_usage > used.options.max_memory
                              THEN {Outcome(used,
                                       Err("Memory limit exceeded during decompression"))}
                              ELSE InflateLoop(used, data, offset + chunk_size,
                                               result \o decompressed.data) :
                     decompressed \in SyncInflate_inflate(chunk) }

\* AdvancedInflate::inflate; a chunk size of 0 is not among the options
AdvancedInflate_inflate(self, data) ==
    IF self.memory_usage > self.options.max_memory
    THEN {Outcome(self, Err("Memory limit exceeded"))}
    ELSE InflateLoop(self, data, 0, <<>>)

\* the while loop of AdvancedInflate::inflate_stream from offset on
RECURSIVE InflateStreamLoop(_, _, _, _)
InflateStreamLoop(self, data, offset, result) ==
    IF offset >= Len(data)
    THEN {Outcome([self EXCEPT !.buffer = <<>>], Ok(result \o self.buffer))}
    ELSE LET chunk_size == Min(self.options.chunk_size, Len(data) - offset)
             chunk      == Slice(data, offset, offset + chunk_size)
         IN  UNION { IF ~decompressed.ok THEN {Outcome(self, decompressed)}
                     ELSE IF Len(self.buffer) + Len(decompressed.data)
                               > self.options.buffer_size
                     THEN InflateStreamLoop([self EXCEPT !.buffer = decompressed.data],
                                            data, offset + chunk_size,
                                            result \o self.buffer)
                     ELSE InflateStreamLoop(
                              [self EXCEPT !.buffer = @ \o decompressed.data],
                              data, offset + chunk_size, result) :
                     decompressed \in SyncInflate_inflate(chunk) }

AdvancedInflate_inflate_stream(self, data) == InflateStreamLoop(self, data, 0, <<>>)

---------------------------------------------------------------------------
(* An AdvancedInflate called several times *)

MaxCalls == 3
PieceSize == 6
SmallMemory == 2

\* the options: pieces of PieceSize bytes; the default memory limit or a
\* small one
AdvOptions ==
    { InflateOptions(PieceSize, InflateOptions_default.buffer_size, m) :
        m \in {InflateOptions_default.max_memory, SmallMemory} }

\* the inputs: streams of one stored block each, whole in a piece; one
\* stream, two streams, a stream and a byte that starts no block, that byte
\* alone
AdvInputs ==
    { compress_data(<<7>>),
      compress_data(<<7>>) \o compress_data(<<8>>),
      compress_data(<<7>>) \o <<255>>,
      <<255>> }

AdvIdle ==
    /\ aself = AdvancedInflate_new(InflateOptions(0, 0, 0))
    /\ acount = 0
    /\ afn = "none"
    /\ ainput = <<>>
    /\ aresult = NotInflated

\* AdvancedInflate::new(options)
AdvInit ==
    /\ \E o \in AdvOptions : aself = AdvancedInflate_new(o)
    /\ acount = 0
    /\ afn = "none"
    /\ ainput = <<>>
    /\ aresult = NotInflated

\* inflate.inflate(&data)
AdvInflate ==
    /\ acount < MaxCalls
    /\ \E data \in AdvInputs : \E o \in AdvancedInflate_inflate(aself, data) :
          /\ aself' = o.self
          /\ aresult' = o.result
          /\ ainput' = data
    /\ afn' = "inflate"
    /\ acount' = acount + 1

\* inflate.inflate_stream(&data)
AdvInflateStream ==
    /\ acount < MaxCalls
    /\ \E data \in AdvInputs : \E o \in AdvancedInflate_inflate_stream(aself, data) :
          /\ aself' = o.self
          /\ aresult' = o.result
          /\ ainput' = data
    /\ afn' = "inflate_stream"
    /\ acount' = acount + 1

---------------------------------------------------------------------------
(* ErrorHandler (src/src/error_handling.rs) *)

\* the variants of PNGError, by name as get_recovery_strategy names them
ErrorTypes ==
    {"InvalidFormat", "InsufficientData", "ParseError", "EncodeError",
     "DecodeError", "MemoryError", "PerformanceError", "Unknown"}

PNGError(variant, message) == [variant |-> variant, message |-> message]

RecoveryStrategies == {"Retry", "Ignore", "UseDefault", "Degrade", "Fail"}

\* Result<T, PNGError>
Success(value) == [ok |-> TRUE, value |-> value, error |-> PNGError("", "")]
Failure(error) == [ok |-> FALSE, value |-> 0, error |-> error]

\* ErrorHandler::new(); recovery_strategies holds the keys that were inserted
ErrorHandler_new == [max_retries |-> 3, recovery_strategies |-> <<>>]

ErrorHandler_with_max_retries(self, max_retries) ==
    [self EXCEPT !.max_retries = max_retries]

\* HashMap::insert on a map kept as a sequence of <<key, value>>, one per key
MapInsert(map, key, value) ==
    IF \E i \in DOMAIN map : map[i][1] = key
    THEN [i \in DOMAIN map |-> IF map[i][1] = key THEN <<key, value>> ELSE map[i]]
    ELSE Append(map, <<key, value>>)

ErrorHandler_set_recovery_strategy(self, error_type, strategy) ==
    [self EXCEPT !.recovery_strategies = MapInsert(@, error_type, strategy)]

\* A mutation of get_recovery_strategy: an error type without a strategy is
\* retried.
ErrorHandler_get_recovery_strategy_retry(self, error) ==
    LET error_type == error.variant
        found == { i \in DOMAIN self.recovery_strategies :
                     self.recovery_strategies[i][1] = error_type }
    IN  IF found = {} THEN "Retry"
        ELSE self.recovery_strategies[CHOOSE i \in found : TRUE][2]

ErrorHandler_get_recovery_strategy(self, error) ==
    LET error_type == error.variant
        found == { i \in DOMAIN self.recovery_strategies :
                     self.recovery_strategies[i][1] = error_type }
    IN  IF found = {} THEN "Fail"
        ELSE self.recovery_strategies[CHOOSE i \in found : TRUE][2]

ErrorHandler_get_default_value == Failure(PNGError("Unknown", "No default value available"))

ErrorHandler_degrade_operation ==
    Failure(PNGError("Unknown", "Degrade operation not implemented"))

\* what a call of handle_error returns and how many times it ran the operation
Handled(result, runs) == [result |-> result, runs |-> runs]

\* the for loop of handle_error from attempt on; operation[k] is what the
\* k-th run of the closure returns
RECURSIVE HandleLoop(_, _, _, _)
HandleLoop(self, operation, attempt, last_error) ==
    IF attempt > self.max_retries THEN Handled(Failure(last_error), attempt)
    ELSE LET r == operation[attempt + 1]
         IN  IF r.ok THEN Handled(r, attempt + 1)
             ELSE IF attempt < self.max_retries
             THEN LET strategy == ErrorHandler_get_recovery_strategy(self, r.error)
                  IN  CASE strategy = "Retry" ->
                               HandleLoop(self, operation, attempt + 1, r.error)
                        [] strategy = "Ignore" -> Handled(r, attempt + 1)
                        [] strategy = "UseDefault" ->
                               Handled(ErrorHandler_get_default_value, attempt + 1)
                        [] strategy = "Degrade" ->
                               Handled(ErrorHandler_degrade_operation, attempt + 1)
                        [] strategy = "Fail" -> Handled(r, attempt + 1)
             ELSE HandleLoop(self, operation, attempt + 1, r.error)

\* ErrorHandler::handle_error; the loop runs at least once, so last_error is
\* Some when the loop ends
ErrorHandler_handle_error(self, operation) ==
    HandleLoop(self, operation, 0, PNGError("Unknown", "Max retries exceeded"))

---------------------------------------------------------------------------
(* An ErrorHandler that is configured and handed operations *)

MaxRetries == 2

\* the operations: closures that return a value or one of two errors, and
\* may return something else when run again
Returns ==
    {Success(1), Failure(PNGError("DecodeError", "bad data")),
     Failure(PNGError("ParseError", "bad chunk"))}
Operations == [1..(ErrorHandler_new.max_retries + 1) -> Returns]

NotHandled == Failure(PNGError("", "not called"))

HandlerIdle ==
    /\ hself = [max_retries |-> 0, recovery_strategies |-> <<>>]
    /\ hoperation = <<>>
    /\ hruns = 0
    /\ hresult = NotHandled

\* ErrorHandler::new()
HandlerInit ==
    /\ hself = ErrorHandler_new
    /\ hoperation = <<>>
    /\ hruns = 0
    /\ hresult = NotHandled

\* handler.with_max_retries(n), before any call
HandlerWithMaxRetries ==
    /\ hoperation = <<>>
    /\ hself.recovery_strategies = <<>>
    /\ \E n \in 0..MaxRetries : hself' = ErrorHandler_with_max_retries(hself, n)
    /\ UNCHANGED <<hoperation, hruns, hresult>>

\* handler.set_recovery_strategy(error_type, strategy), before any call
HandlerSetRecoveryStrategy ==
    /\ hoperation = <<>>
    /\ \E error_type \in {"DecodeError", "ParseError"}, strategy \in RecoveryStrategies :
          hself' = ErrorHandler_set_recovery_strategy(hself, error_type, strategy)
    /\ UNCHANGED <<hoperation, hruns, hresult>>

\* handler.handle_error(operation)
HandlerHandleError ==
    /\ \E operation \in Operations :
          LET h == ErrorHandler_handle_error(hself, operation)
          IN  /\ hoperation' = operation
              /\ hruns' = h.runs
              /\ hresult' = h.result
    /\ UNCHANGED hself

---------------------------------------------------------------------------
(* Interlace statistics (src/src/interlace.rs get_interlace_stats) *)

\* the for loop of get_interlace_stats from pass on: the pass sizes
RECURSIVE PassSizes(_, _, _)
PassSizes(width, height, pass) ==
    IF pass >= 7 THEN <<>>
    ELSE LET size == get_interlace_pass_size(width, height, pass)
         IN  <<size[1] * size[2]>> \o PassSizes(width, height, pass + 1)

RECURSIVE SumSeq(_)
SumSeq(s) == IF s = <<>> THEN 0 ELSE Head(s) + SumSeq(Tail(s))

\* get_interlace_stats; the compression ratio, a float, is left out
get_interlace_stats(width, height) ==
    LET pass_sizes == PassSizes(width, height, 0)
    IN  [total_passes |-> 7, total_pixels |-> SumSeq(pass_sizes),
         pass_sizes |-> pass_sizes]

MaxStatsDim == 10
StatsDims == (0..MaxStatsDim) \cup {16}

NoStats == [total_passes |-> 0, total_pixels |-> 0, pass_sizes |-> <<>>]

StatsIdle == tw = 0 /\ th = 0 /\ tstats = NoStats

StatsInit == tw \in StatsDims /\ th \in StatsDims /\ tstats = NoStats

\* get_interlace_stats(width, height)
GetInterlaceStats ==
    /\ tstats = NoStats
    /\ tstats' = get_interlace_stats(tw, th)
    /\ UNCHANGED <<tw, th>>

---------------------------------------------------------------------------
(* FilterPacker and FilterUnpacker (src/src/filter_pack.rs) *)

\* the FilterContext both build for row row_index; previous_row and
\* column_index are read by no filter
FilterContext(width, height, bpp, row_index) ==
    [width |-> width, height |-> height, bytes_per_pixel |-> bpp,
     row_index |-> row_index]

\* FilterProcessor::reverse_filter: the registry holds the five standard filters
FilterProcessor_reverse_filter(ft, data, ctx) ==
    IF ft \in FilterTypes THEN StandardFilter_reverse(ft, data, ctx)
    ELSE Err("Filter type not found")

\* the for loop of FilterUnpacker::unpack_filters from row y on
RECURSIVE UnpackLoop(_, _, _, _, _, _, _)
UnpackLoop(data, width, height, bpp, y, offset, unpacked_data) ==
    LET bytes_per_row == width * bpp
    IN  IF y >= height THEN Ok(unpacked_data)
        ELSE IF offset >= Len(data) THEN Err("Insufficient data for filter type")
        ELSE IF offset + 1 + bytes_per_row > Len(data) THEN Err("Insufficient data for row")
        ELSE LET row == FilterProcessor_reverse_filter(
                            At(data, offset),
                            Slice(data, offset + 1, offset + 1 + bytes_per_row),
                            FilterContext(width, height, bpp, y))
             IN  IF ~row.ok THEN row
                 ELSE UnpackLoop(data, width, height, bpp, y + 1,
                                 offset + 1 + bytes_per_row,
                                 unpacked_data \o row.data)

FilterUnpacker_unpack_filters(data, width, height, bpp) ==
    UnpackLoop(data, width, height, bpp, 0, 0, <<>>)

\* f64::MAX, the score of a filter that fails, and the order of the scores
F64_MAX == 0 - 1
ScoreLess(a, b) == a # F64_MAX /\ (b = F64_MAX \/ a < b)

\* FilterPacker::calculate_compression_ratio: the sum of the squares of the
\* bytes (exact in f64 at these sizes)
RECURSIVE FilterPacker_calculate_compression_ratio(_)
FilterPacker_calculate_compression_ratio(data) ==
    IF data = <<>> THEN 0
    ELSE Head(data) * Head(data) + FilterPacker_calculate_compression_ratio(Tail(data))

FilterPacker_calculate_filter_score(data, filter_type, context) ==
    LET test_data == FilterProcessor_apply_filter(filter_type, data, context)
    IN  IF ~test_data.ok THEN F64_MAX
        ELSE FilterPacker_calculate_compression_ratio(test_data.data)

\* the for loop of FilterPacker::choose_best_filter over the filter types in
\* the order None, Sub, Up, Average, Paeth
RECURSIVE BestFilterLoop(_, _, _, _, _)
BestFilterLoop(row_data, context, types, best_filter, best_score) ==
    IF types = <<>> THEN best_filter
    ELSE LET score == FilterPacker_calculate_filter_score(row_data, Head(types), context)
         IN  IF ScoreLess(score, best_score)
             THEN BestFilterLoop(row_data, context, Tail(types), Head(types), score)
             ELSE BestFilterLoop(row_data, context, Tail(types), best_filter, best_score)

FilterPacker_choose_best_filter(row_data, row_index, width, bpp) ==
    BestFilterLoop(row_data, FilterContext(width, 0, bpp, row_index),
                   <<FILTER_NONE, FILTER_SUB, FILTER_UP, FILTER_AVERAGE, FILTER_PAETH>>,
                   FILTER_NONE, F64_MAX)

FilterPacker_apply_filter(data, filter_type, row_index, width, bpp) ==
    FilterProcessor_apply_filter(filter_type, data, FilterContext(width, 0, bpp, row_index))

\* the for loop of FilterPacker::pack_filters from row y on
RECURSIVE PackLoop(_, _, _, _, _, _)
PackLoop(data, width, height, bpp, y, packed_data) ==
    LET bytes_per_row == width * bpp
        row_start == y * bytes_per_row
        row_data == Slice(data, row_start, row_start + bytes_per_row)
        best_filter == FilterPacker_choose_best_filter(row_data, y, width, bpp)
        filtered_row == FilterPacker_apply_filter(row_data, best_filter, y, width, bpp)
    IN  IF y >= height THEN Ok(packed_data)
        ELSE IF row_start + bytes_per_row > Len(data) THEN Err("Insufficient data for row")
        ELSE IF ~filtered_row.ok THEN filtered_row
        ELSE PackLoop(data, width, height, bpp, y + 1,
                      packed_data \o <<best_filter>> \o filtered_row.data)

FilterPacker_pack_filters(data, width, height, bpp) ==
    PackLoop(data, width, height, bpp, 0, <<>>)

---------------------------------------------------------------------------
(* Rows packed and unpacked *)

NotPacked == [ok |-> FALSE, data |-> <<>>, err |-> "not called"]

\* the stream of the rows of data, each behind its filter-type byte
RECURSIVE Scanlines(_, _, _)
Scanlines(data, types, bytes_per_row) ==
    IF types = <<>> THEN <<>>
    ELSE <<Head(types)>> \o Slice(data, 0, bytes_per_row)
         \o Scanlines(Slice(data, bytes_per_row, Len(data)), Tail(types), bytes_per_row)

FpackIdle ==
    /\ qwidth = 0 /\ qheight = 0 /\ qbpp = 0
    /\ qdata = <<>> /\ qtypes = <<>>
    /\ qpacked = NotPacked /\ qunpacked = NotPacked

FpackInit ==
    /\ \E s \in FilterShapes :
          /\ qwidth = s.width /\ qheight = s.rows /\ qbpp = s.bytes_per_pixel
          /\ qdata \in [1..(s.rows * s.width * s.bytes_per_pixel) -> FilterBytes]
          /\ qtypes \in [1..s.rows -> FilterTypes]
    /\ qpacked = NotPacked /\ qunpacked = NotPacked

\* packer.pack_filters(&data, width, height, bpp)
PackFilters ==
    /\ qpacked = NotPacked
    /\ qpacked' = FilterPacker_pack_filters(qdata, qwidth, qheight, qbpp)
    /\ UNCHANGED <<qwidth, qheight, qbpp, qdata, qtypes, qunpacked>>

\* unpacker.unpack_filters(&stream, width, height, bpp)
UnpackFilters ==
    /\ qunpacked = NotPacked
    /\ qunpacked' = FilterUnpacker_unpack_filters(
                        Scanlines(qdata, qtypes, qwidth * qbpp), qwidth, qheight, qbpp)
    /\ UNCHANGED <<qwidth, qheight, qbpp, qdata, qtypes, qpacked>>

---------------------------------------------------------------------------
(* ParallelFilterProcessor (src/src/filter_optimizer.rs, src/src/filter_pack.rs) *)

\* let rows_per_thread = (row_count + self.thread_count - 1) / self.thread_count
RowsPerThread(row_count, thread_count) == (row_count + thread_count - 1) \div thread_count

\* A mutation of the first row of a worker: every worker starts at row 0.
StartRow_first(thread_id, rows_per_thread) == 0

\* start_row and end_row of worker thread_id
StartRow(thread_id, rows_per_thread) == thread_id * rows_per_thread
EndRow(thread_id, rows_per_thread, row_count) ==
    IF (thread_id + 1) * rows_per_thread < row_count
    THEN (thread_id + 1) * rows_per_thread ELSE row_count

\* the workers the spawning loop of apply_parallel starts, from thread_id on:
\* each with its rows and the row it is to do next
RECURSIVE SpawnLoop(_, _, _)
SpawnLoop(thread_id, thread_count, row_count) ==
    LET rows_per_thread == RowsPerThread(row_count, thread_count)
        start_row == StartRow(thread_id, rows_per_thread)
        end_row   == EndRow(thread_id, rows_per_thread, row_count)
    IN  IF thread_id >= thread_count \/ start_row >= end_row THEN <<>>
        ELSE <<[start_row |-> start_row, end_row |-> end_row, row |-> start_row,
                done |-> FALSE]>>
             \o SpawnLoop(thread_id + 1, thread_count, row_count)

\* the closures of apply_filter_parallel and reverse_filter_parallel
filter_func(op, filter_type, row_data, row_context) ==
    IF op = "apply" THEN StandardFilter_apply(filter_type, row_data, row_context)
    ELSE StandardFilter_reverse(filter_type, row_data, row_context)

\* while let Ok(result) = rx.recv(): the first error in the channel
RECURSIVE ReceiveAll(_)
ReceiveAll(channel) ==
    IF channel = <<>> THEN Ok(<<>>)
    ELSE IF ~Head(channel).ok THEN Head(channel)
    ELSE ReceiveAll(Tail(channel))

\* FilterPack's process_filters_parallel: the chunks of rows from chunk_start
\* on, packed one after the other
RECURSIVE ProcessChunks(_, _, _, _, _, _, _)
ProcessChunks(data, width, height, bpp, chunk_size, chunk_start, results) ==
    IF chunk_start >= height THEN Ok(results)
    ELSE LET bytes_per_row == width * bpp
             chunk_end == Min(chunk_start + chunk_size, height)
             chunk_result ==
                 FilterPacker_pack_filters(
                     Slice(data, chunk_start * bytes_per_row, chunk_end * bytes_per_row),
                     width, chunk_end - chunk_start, bpp)
         IN  IF ~chunk_result.ok THEN chunk_result
             ELSE ProcessChunks(data, width, height, bpp, chunk_size,
                                chunk_start + chunk_size, results \o chunk_result.data)

\* a division by zero for no threads, step_by(0) for no rows: both panic
process_filters_parallel(num_threads, data, width, height, bpp) ==
    IF num_threads = 0 \/ height = 0 THEN Err("panic")
    ELSE ProcessChunks(data, width, height, bpp, RowsPerThread(height, num_threads),
                       0, <<>>)

---------------------------------------------------------------------------
(* A buffer filtered in parallel *)

MaxThreads == 3
MaxParRows == 3
ParWidths == {1, 2}
ParBytes == {1, 255}
ParOps == {"apply", "reverse"}

NotReturned == [ok |-> FALSE, data |-> <<>>, err |-> "not returned"]

ParIdle ==
    /\ rdata = <<>> /\ rorig = <<>>
    /\ rctx = [filter_type |-> 0, op |-> "none", width |-> 0, height |-> 0, bytes_per_pixel |-> 0]
    /\ rthreads = 0 /\ rworkers = <<>> /\ rchannel = <<>> /\ rwriters = <<>>
    /\ rstage = "idle" /\ rresult = NotReturned /\ rpacked = NotReturned

ParInit ==
    /\ \E ft \in FilterTypes, op \in ParOps, w \in ParWidths, h \in 1..MaxParRows :
          /\ rctx = [filter_type |-> ft, op |-> op, width |-> w, height |-> h,
                     bytes_per_pixel |-> 1]
          /\ rdata \in [1..(w * h) -> ParBytes]
    /\ rorig = rdata
    /\ rthreads \in 0..MaxThreads
    /\ rworkers = <<>> /\ rchannel = <<>>
    /\ rwriters = [i \in 1..Len(rdata) |-> {}]
    /\ rstage = "start" /\ rresult = NotReturned /\ rpacked = NotReturned

\* apply_parallel up to the end of the spawning loop; the division panics
\* when there are no threads
ParSpawn ==
    /\ rstage = "start"
    /\ IF rthreads = 0
       THEN rstage' = "panicked" /\ rworkers' = <<>>
       ELSE rstage' = "spawned" /\ rworkers' = SpawnLoop(0, rthreads, rctx.height)
    /\ UNCHANGED <<rdata, rorig, rctx, rthreads, rchannel, rwriters, rresult, rpacked>>

\* one turn of a worker's loop over its rows: the filter is handed the row
\* alone.  The copy of the row before it that the worker makes for
\* previous_row, which may be a row another worker is writing, is read by no
\* filter.  The bytes of a row the filter has worked on count as written.
ParWorkerRow(k) ==
    /\ rstage = "spawned"
    /\ ~rworkers[k].done
    /\ rworkers[k].row < rworkers[k].end_row
    /\ LET bytes_per_row == rctx.width * rctx.bytes_per_pixel
           row       == rworkers[k].row
           row_start == row * bytes_per_row
           row_end   == row_start + bytes_per_row
           r == filter_func(rctx.op, rctx.filter_type, Slice(rdata, row_start, row_end),
                            FilterContext(rctx.width, rctx.height, rctx.bytes_per_pixel, row))
       IN  IF row_end > Len(rdata)
           THEN /\ rworkers' = [rworkers EXCEPT ![k].row = row + 1]
                /\ UNCHANGED <<rdata, rchannel, rwriters>>
           ELSE IF ~r.ok
           THEN /\ rchannel' = Append(rchannel, r)
                /\ rworkers' = [rworkers EXCEPT ![k].done = TRUE]
                /\ UNCHANGED <<rdata, rwriters>>
           ELSE /\ rdata' = [i \in 1..Len(rdata) |->
                               IF i > row_start /\ i <= row_end
                               THEN r.data[i - row_start] ELSE rdata[i]]
                /\ rwriters' = [i \in 1..Len(rdata) |->
                                  IF i > row_start /\ i <= row_end
                                     /\ rctx.filter_type # FILTER_NONE
                                  THEN rwriters[i] \cup {k} ELSE rwriters[i]]
                /\ rworkers' = [rworkers EXCEPT ![k].row = row + 1]
                /\ UNCHANGED rchannel
    /\ UNCHANGED <<rorig, rctx, rthreads, rstage, rresult, rpacked>>

\* a worker past its last row: tx.send(Ok(())) and the thread ends
ParWorkerSend(k) ==
    /\ rstage = "spawned"
    /\ ~rworkers[k].done
    /\ rworkers[k].row >= rworkers[k].end_row
    /\ rchannel' = Append(rchannel, Ok(<<>>))
    /\ rworkers' = [rworkers EXCEPT ![k].done = TRUE]
    /\ UNCHANGED <<rdata, rorig, rctx, rthreads, rwriters, rstage, rresult, rpacked>>

\* the caller: every handle joined, then the channel read to its end
ParJoin ==
    /\ rstage = "spawned"
    /\ \A k \in DOMAIN rworkers : rworkers[k].done
    /\ rresult' = ReceiveAll(rchannel)
    /\ rstage' = "returned"
    /\ UNCHANGED <<rdata, rorig, rctx, rthreads, rworkers, rchannel, rwriters, rpacked>>

\* processor.process_filters_parallel(&data, width, height, bpp)
ParProcessFilters ==
    /\ rstage = "start"
    /\ rpacked = NotReturned
    /\ rpacked' = process_filters_parallel(rthreads, rdata, rctx.width, rctx.height,
                                           rctx.bytes_per_pixel)
    /\ UNCHANGED <<rdata, rorig, rctx, rthreads, rworkers, rchannel, rwriters, rstage, rresult>>

---------------------------------------------------------------------------
(* ChunkStream (src/src/chunk_stream.rs) *)

ReadRequest(id, length) ==
    [id |-> id, length |-> Abs(length), allow_less |-> length < 0]

\* the thread process_async spawns, at the top of the loop of process_internal
NewThread == [pc |-> "collect", current_data |-> <<>>, current_length |-> 0]

\* while let Some(buffer) = buffers_guard.pop_front(): the buffers joined
RECURSIVE CollectBuffers(_)
CollectBuffers(buffers) ==
    IF buffers = <<>> THEN <<>> ELSE Head(buffers) \o CollectBuffers(Tail(buffers))

\* the while loop of process_internal over the read requests, the locks on
\* reads and paused held: what it leaves of the requests and of the data, what
\* the callbacks were called with, the paused flag
RECURSIVE ServeReads(_, _, _, _)
ServeReads(reads, current_data, called, paused) ==
    IF reads = <<>>
    THEN [reads |-> reads, current_data |-> current_data, called |-> called,
          paused |-> paused]
    ELSE LET read_request == Head(reads)
             available == Len(current_data)
             needed == read_request.length
             take_length == IF available >= needed THEN needed ELSE available
         IN  IF available >= needed \/ read_request.allow_less
             THEN LET data == Slice(current_data, 0, take_length)
                      rest == Slice(current_data, take_length, available)
                      now  == Append(called, [id |-> read_request.id, data |-> data])
                  IN  IF rest = <<>>
                      THEN [reads |-> Tail(reads), current_data |-> rest,
                            called |-> now, paused |-> paused]
                      ELSE ServeReads(Tail(reads), rest, now, paused)
             ELSE [reads |-> reads, current_data |-> current_data,
                   called |-> called, paused |-> TRUE]

---------------------------------------------------------------------------
(* A ChunkStream written to and read from *)

MaxWritten == 2
MaxIssued == 2
MaxResumes == 1
ReadLengths == {-2, 1, 2}

StreamIdle ==
    /\ ubuffers = <<>> /\ ubuffered = 0 /\ ureads = <<>> /\ upaused = FALSE
    /\ uthreads = EmptyBag /\ uwritten = <<>> /\ uissued = 0 /\ uresumes = 0 /\ udelivered = <<>>

\* ChunkStream::new(); uissued counts from 1 to tell an idle stream from a new one
StreamInit ==
    /\ ubuffers = <<>> /\ ubuffered = 0 /\ ureads = <<>> /\ upaused = FALSE
    /\ uthreads = EmptyBag /\ uwritten = <<>> /\ uissued = 1 /\ uresumes = 0 /\ udelivered = <<>>

\* the threads after a spawn, after a step of thread t, after its end
Spawned == uthreads (+) SetToBag({NewThread})
Ended(t) == uthreads (-) SetToBag({t})
Moved(t, to) == Ended(t) (+) SetToBag({to})

\* stream.write(&data): the bytes written are numbered in write order; the
\* stream stays writable (end is not called)
StreamWrite ==
    /\ \E n \in 1..2 :
          /\ Len(uwritten) + n <= MaxWritten
          /\ LET data == [i \in 1..n |-> Len(uwritten) + i]
             IN  /\ ubuffers' = Append(ubuffers, data)
                 /\ ubuffered' = ubuffered + Len(data)
                 /\ uwritten' = uwritten \o data
    /\ uthreads' = Spawned
    /\ UNCHANGED <<ureads, upaused, uissued, uresumes, udelivered>>

\* stream.read(length, callback)
StreamRead ==
    /\ uissued <= MaxIssued
    /\ \E length \in ReadLengths : ureads' = Append(ureads, ReadRequest(uissued, length))
    /\ uissued' = uissued + 1
    /\ uthreads' = Spawned
    /\ UNCHANGED <<ubuffers, ubuffered, upaused, uwritten, uresumes, udelivered>>

\* stream.resume(), of a stream that process_internal has paused
StreamResume ==
    /\ upaused
    /\ uresumes < MaxResumes
    /\ upaused' = FALSE
    /\ uthreads' = Spawned
    /\ uresumes' = uresumes + 1
    /\ UNCHANGED <<ubuffers, ubuffered, ureads, uwritten, uissued, udelivered>>

\* thread t takes every buffer, and ends when there was none
ThreadCollect(t) ==
    /\ t.pc = "collect"
    /\ LET current_data == CollectBuffers(ubuffers)
       IN  uthreads' = IF current_data = <<>> THEN Ended(t)
                       ELSE Moved(t, [pc |-> "serve", current_data |-> current_data,
                                      current_length |-> Len(current_data)])
    /\ ubuffers' = <<>>
    /\ UNCHANGED <<ubuffered, ureads, upaused, uwritten, uissued, uresumes, udelivered>>

\* thread t serves the read requests from the data it holds
ThreadServe(t) ==
    /\ t.pc = "serve"
    /\ LET s == ServeReads(ureads, t.current_data, udelivered, upaused)
       IN  /\ ureads' = s.reads
           /\ udelivered' = s.called
           /\ upaused' = s.paused
           /\ uthreads' = Moved(t, [t EXCEPT !.current_data = s.current_data,
                                              !.pc = IF s.current_data = <<>>
                                                     THEN "update" ELSE "put_back"])
    /\ UNCHANGED <<ubuffers, ubuffered, uwritten, uissued, uresumes>>

\* thread t puts the data it has left at the back of the queue
ThreadPutBack(t) ==
    /\ t.pc = "put_back"
    /\ ubuffers' = Append(ubuffers, t.current_data)
    /\ uthreads' = Moved(t, [t EXCEPT !.pc = "update"])
    /\ UNCHANGED <<ubuffered, ureads, upaused, uwritten, uissued, uresumes, udelivered>>

\* thread t sets the buffered count and, after its sleep, is at the top of
\* the loop again
ThreadUpdate(t) ==
    /\ t.pc = "update"
    /\ ubuffered' = t.current_length
    /\ uthreads' = Moved(t, NewThread)
    /\ UNCHANGED <<ubuffers, ureads, upaused, uwritten, uissued, uresumes, udelivered>>

\* a step of one of the threads
ThreadStep ==
    \E t \in BagToSet(uthreads) :
        ThreadCollect(t) \/ ThreadServe(t) \/ ThreadPutBack(t) \/ ThreadUpdate(t)

---------------------------------------------------------------------------
(* FilterCache (src/src/filter_optimizer.rs, src/src/filter_pack.rs) *)

\* FilterCache::new(max_size); the HashMap is kept as a function on its keys
FilterCache_new(max_size) == [cache |-> <<>>, max_size |-> max_size]

\* HashMap::remove and HashMap::insert
HashMapRemove(map, key) == [k \in (DOMAIN map) \ {key} |-> map[k]]
HashMapInsert(map, key, value) ==
    [k \in (DOMAIN map) \cup {key} |-> IF k = key THEN value ELSE map[k]]

\* self.cache.keys().next(): a HashMap yields its keys in no order that the
\* program fixes, so the first key is any of the keys; none for an empty map
FirstKeys(map) == IF DOMAIN map = {} THEN {"none"} ELSE DOMAIN map

\* FilterCache::cache_result (filter_optimizer.rs) and FilterCache::set
\* (filter_pack.rs), line for line the same: the caches the call can leave
FilterCache_set(self, key, value) ==
    IF Cardinality(DOMAIN self.cache) >= self.max_size
    THEN { [self EXCEPT !.cache = HashMapInsert(HashMapRemove(self.cache, first_key),
                                                key, value)] :
              first_key \in FirstKeys(self.cache) }
    ELSE { [self EXCEPT !.cache = HashMapInsert(self.cache, key, value)] }

---------------------------------------------------------------------------
(* A cache that results are stored in *)

MaxCacheSize == 2
MaxCacheCalls == 4
CacheKeys == {"a", "b", "c"}
CacheValues == {0, 1}
CacheTypes == {"filter_optimizer", "filter_pack"}

NoCall == [key |-> "none", full |-> FALSE, new |-> FALSE, before |-> <<>>, oldest |-> "none"]

CacheIdle ==
    /\ xself = FilterCache_new(0) /\ ximpl = "none" /\ xorder = <<>>
    /\ xcount = 0 /\ xlast = NoCall

\* FilterCache::new(max_size) of either type
CacheInit ==
    /\ \E max_size \in 0..MaxCacheSize : xself = FilterCache_new(max_size)
    /\ ximpl \in CacheTypes
    /\ xorder = <<>> /\ xcount = 0 /\ xlast = NoCall

\* a call that stores value under key: the cache after it, the keys in
\* insertion order, and the record of the call
CacheStore(key, value) ==
    /\ xcount < MaxCacheCalls
    /\ \E after \in FilterCache_set(xself, key, value) :
          /\ xself' = after
          /\ xorder' = SelectSeq(xorder, LAMBDA k : k \in DOMAIN after.cache /\ k # key)
                       \o <<key>>
    /\ xlast' = [key |-> key,
                 full |-> Cardinality(DOMAIN xself.cache) >= xself.max_size,
                 new |-> key \notin DOMAIN xself.cache,
                 before |-> xself.cache,
                 oldest |-> IF xorder = <<>> THEN "none" ELSE Head(xorder)]
    /\ xcount' = xcount + 1
    /\ UNCHANGED ximpl

\* cache.cache_result(key, result) of filter_optimizer.rs
CacheResult ==
    /\ ximpl = "filter_optimizer"
    /\ \E key \in CacheKeys, value \in CacheValues : CacheStore(key, value)

\* cache.set(key, value) of filter_pack.rs
CacheSet ==
    /\ ximpl = "filter_pack"
    /\ \E key \in CacheKeys, value \in CacheValues : CacheStore(key, value)

---------------------------------------------------------------------------
(* Specifications *)

PaethNext  == PaethCall /\ UNCHANGED <<filter_vars, interlace_vars, chunk_vars, map_vars, codec_vars, idat_vars, scale_vars, gray_vars, norm_vars, adv_vars, handler_vars, stats_vars, fpack_vars, par_vars, stream_vars, cache_vars>>
InitPaeth  == PaethInit /\ FilterIdle /\ InterlaceIdle /\ ChunkIdle /\ MapIdle /\ CodecIdle /\ IdatIdle /\ ScaleIdle /\ GrayIdle /\ NormIdle /\ AdvIdle /\ HandlerIdle /\ StatsIdle /\ FpackIdle /\ ParIdle /\ StreamIdle /\ CacheIdle
SpecPaeth  == InitPaeth /\ [][PaethNext]_vars

FilterNext ==
    \/ FilterApply /\ UNCHANGED <<paeth_vars, interlace_vars, chunk_vars, map_vars, codec_vars, idat_vars, scale_vars, gray_vars, norm_vars, adv_vars, handler_vars, stats_vars, fpack_vars, par_vars, stream_vars, cache_vars>>
    \/ FilterReverse /\ UNCHANGED <<paeth_vars, interlace_vars, chunk_vars, map_vars, codec_vars, idat_vars, scale_vars, gray_vars, norm_vars, adv_vars, handler_vars, stats_vars, fpack_vars, par_vars, stream_vars, cache_vars>>
    \/ FilterReverseFirst /\ UNCHANGED <<paeth_vars, interlace_vars, chunk_vars, map_vars, codec_vars, idat_vars, scale_vars, gray_vars, norm_vars, adv_vars, handler_vars, stats_vars, fpack_vars, par_vars, stream_vars, cache_vars>>
    \/ FilterApplyBack /\ UNCHANGED <<paeth_vars, interlace_vars, chunk_vars, map_vars, codec_vars, idat_vars, scale_vars, gray_vars, norm_vars, adv_vars, handler_vars, stats_vars, fpack_vars, par_vars, stream_vars, cache_vars>>
InitFilter == FilterInit /\ PaethIdle /\ InterlaceIdle /\ ChunkIdle /\ MapIdle /\ CodecIdle /\ IdatIdle /\ ScaleIdle /\ GrayIdle /\ NormIdle /\ AdvIdle /\ HandlerIdle /\ StatsIdle /\ FpackIdle /\ ParIdle /\ StreamIdle /\ CacheIdle

InterlaceNext ==
    \/ GetInterlacePasses /\ UNCHANGED <<paeth_vars, filter_vars, chunk_vars, map_vars, codec_vars, idat_vars, scale_vars, gray_vars, norm_vars, adv_vars, handler_vars, stats_vars, fpack_vars, par_vars, stream_vars, cache_vars>>
    \/ InterlaceImage /\ UNCHANGED <<paeth_vars, filter_vars, chunk_vars, map_vars, codec_vars, idat_vars, scale_vars, gray_vars, norm_vars, adv_vars, handler_vars, stats_vars, fpack_vars, par_vars, stream_vars, cache_vars>>
    \/ DeinterlacePasses /\ UNCHANGED <<paeth_vars, filter_vars, chunk_vars, map_vars, codec_vars, idat_vars, scale_vars, gray_vars, norm_vars, adv_vars, handler_vars, stats_vars, fpack_vars, par_vars, stream_vars, cache_vars>>
InitInterlace == InterlaceInit /\ PaethIdle /\ FilterIdle /\ ChunkIdle /\ MapIdle /\ CodecIdle /\ IdatIdle /\ ScaleIdle /\ GrayIdle /\ NormIdle /\ AdvIdle /\ HandlerIdle /\ StatsIdle /\ FpackIdle /\ ParIdle /\ StreamIdle /\ CacheIdle
SpecInterlace == InitInterlace /\ [][InterlaceNext]_vars
SpecFilter == InitFilter /\ [][FilterNext]_vars

ChunkNext ==
    \/ ChunkFlipBit /\ UNCHANGED <<paeth_vars, filter_vars, interlace_vars, map_vars, codec_vars, idat_vars, scale_vars, gray_vars, norm_vars, adv_vars, handler_vars, stats_vars, fpack_vars, par_vars, stream_vars, cache_vars>>
    \/ ChunkParse /\ UNCHANGED <<paeth_vars, filter_vars, interlace_vars, map_vars, codec_vars, idat_vars, scale_vars, gray_vars, norm_vars, adv_vars, handler_vars, stats_vars, fpack_vars, par_vars, stream_vars, cache_vars>>
InitChunk == ChunkInit /\ PaethIdle /\ FilterIdle /\ InterlaceIdle /\ MapIdle /\ CodecIdle /\ IdatIdle /\ ScaleIdle /\ GrayIdle /\ NormIdle /\ AdvIdle /\ HandlerIdle /\ StatsIdle /\ FpackIdle /\ ParIdle /\ StreamIdle /\ CacheIdle
SpecChunk == InitChunk /\ [][ChunkNext]_vars

OrderOthers ==
    UNCHANGED <<paeth_vars, filter_vars, interlace_vars, map_vars, codec_vars, idat_vars, scale_vars, gray_vars, norm_vars, adv_vars, handler_vars, stats_vars, fpack_vars, par_vars, stream_vars, cache_vars>>
OrderNext ==
    \/ ChunkAppend /\ OrderOthers
    \/ OrderParse /\ OrderOthers
InitOrder == OrderInit /\ PaethIdle /\ FilterIdle /\ InterlaceIdle /\ MapIdle /\ CodecIdle /\ IdatIdle /\ ScaleIdle /\ GrayIdle /\ NormIdle /\ AdvIdle /\ HandlerIdle /\ StatsIdle /\ FpackIdle /\ ParIdle /\ StreamIdle /\ CacheIdle
SpecOrder == InitOrder /\ [][OrderNext]_vars

MapNext ==
    \/ MapPixels /\ UNCHANGED <<paeth_vars, filter_vars, interlace_vars, chunk_vars, codec_vars, idat_vars, scale_vars, gray_vars, norm_vars, adv_vars, handler_vars, stats_vars, fpack_vars, par_vars, stream_vars, cache_vars>>
    \/ DePalette /\ UNCHANGED <<paeth_vars, filter_vars, interlace_vars, chunk_vars, codec_vars, idat_vars, scale_vars, gray_vars, norm_vars, adv_vars, handler_vars, stats_vars, fpack_vars, par_vars, stream_vars, cache_vars>>
    \/ ConvertToRgba /\ UNCHANGED <<paeth_vars, filter_vars, interlace_vars, chunk_vars, codec_vars, idat_vars, scale_vars, gray_vars, norm_vars, adv_vars, handler_vars, stats_vars, fpack_vars, par_vars, stream_vars, cache_vars>>
InitMap == MapInit /\ PaethIdle /\ FilterIdle /\ InterlaceIdle /\ ChunkIdle /\ CodecIdle /\ IdatIdle /\ ScaleIdle /\ GrayIdle /\ NormIdle /\ AdvIdle /\ HandlerIdle /\ StatsIdle /\ FpackIdle /\ ParIdle /\ StreamIdle /\ CacheIdle
SpecMap == InitMap /\ [][MapNext]_vars

CodecOthers == UNCHANGED <<paeth_vars, filter_vars, interlace_vars, chunk_vars, map_vars, idat_vars, scale_vars, gray_vars, norm_vars, adv_vars, handler_vars, stats_vars, fpack_vars, par_vars, stream_vars, cache_vars>>
CodecNext ==
    \/ PackSignature /\ CodecOthers
    \/ PackIhdr /\ CodecOthers
    \/ PackPixels /\ CodecOthers
    \/ PackIdat /\ CodecOthers
    \/ PackIend /\ CodecOthers
    \/ PngParse /\ CodecOthers
InitCodec == CodecInit /\ PaethIdle /\ FilterIdle /\ InterlaceIdle /\ ChunkIdle /\ MapIdle /\ IdatIdle /\ ScaleIdle /\ GrayIdle /\ NormIdle /\ AdvIdle /\ HandlerIdle /\ StatsIdle /\ FpackIdle /\ ParIdle /\ StreamIdle /\ CacheIdle
SpecCodec == InitCodec /\ [][CodecNext]_vars

IdatOthers ==
    UNCHANGED <<paeth_vars, filter_vars, interlace_vars, chunk_vars, map_vars, codec_vars, scale_vars, gray_vars, norm_vars, adv_vars, handler_vars, stats_vars, fpack_vars, par_vars, stream_vars, cache_vars>>
IdatNext ==
    \/ IdatWrite /\ IdatOthers
    \/ IdatAddChunk /\ IdatOthers
    \/ IdatInflateAll /\ IdatOthers
InitIdat == IdatInit /\ PaethIdle /\ FilterIdle /\ InterlaceIdle /\ ChunkIdle /\ MapIdle /\ CodecIdle /\ ScaleIdle /\ GrayIdle /\ NormIdle /\ AdvIdle /\ HandlerIdle /\ StatsIdle /\ FpackIdle /\ ParIdle /\ StreamIdle /\ CacheIdle
SpecIdat == InitIdat /\ [][IdatNext]_vars

ScaleOthers ==
    UNCHANGED <<paeth_vars, filter_vars, interlace_vars, chunk_vars, map_vars, codec_vars, idat_vars, gray_vars, norm_vars, adv_vars, handler_vars, stats_vars, fpack_vars, par_vars, stream_vars, cache_vars>>
ScaleNext ==
    \/ ScalePixelValue /\ ScaleOthers
    \/ ScaleDepth /\ ScaleOthers
InitScale == ScaleInit /\ PaethIdle /\ FilterIdle /\ InterlaceIdle /\ ChunkIdle /\ MapIdle /\ CodecIdle /\ IdatIdle /\ GrayIdle /\ NormIdle /\ AdvIdle /\ HandlerIdle /\ StatsIdle /\ FpackIdle /\ ParIdle /\ StreamIdle /\ CacheIdle
SpecScale == InitScale /\ [][ScaleNext]_vars

GrayOthers ==
    UNCHANGED <<paeth_vars, filter_vars, interlace_vars, chunk_vars, map_vars, codec_vars, idat_vars, scale_vars, norm_vars, adv_vars, handler_vars, stats_vars, fpack_vars, par_vars, stream_vars, cache_vars>>
GrayNext ==
    \/ AdvancedToGrayscale /\ GrayOthers
    \/ ConverterToGrayscale /\ GrayOthers
InitGray == GrayInit /\ PaethIdle /\ FilterIdle /\ InterlaceIdle /\ ChunkIdle /\ MapIdle /\ CodecIdle /\ IdatIdle /\ ScaleIdle /\ NormIdle /\ AdvIdle /\ HandlerIdle /\ StatsIdle /\ FpackIdle /\ ParIdle /\ StreamIdle /\ CacheIdle
SpecGray == InitGray /\ [][GrayNext]_vars

NormOthers ==
    UNCHANGED <<paeth_vars, filter_vars, interlace_vars, chunk_vars, map_vars, codec_vars, idat_vars, scale_vars, gray_vars, adv_vars, handler_vars, stats_vars, fpack_vars, par_vars, stream_vars, cache_vars>>
NormNext ==
    \/ NormConvertColorType /\ NormOthers
    \/ NormConvertToRgba /\ NormOthers
InitNorm == NormInit /\ PaethIdle /\ FilterIdle /\ InterlaceIdle /\ ChunkIdle /\ MapIdle /\ CodecIdle /\ IdatIdle /\ ScaleIdle /\ GrayIdle /\ AdvIdle /\ HandlerIdle /\ StatsIdle /\ FpackIdle /\ ParIdle /\ StreamIdle /\ CacheIdle
SpecNorm == InitNorm /\ [][NormNext]_vars

AdvOthers ==
    UNCHANGED <<paeth_vars, filter_vars, interlace_vars, chunk_vars, map_vars, codec_vars, idat_vars, scale_vars, gray_vars, norm_vars, handler_vars, stats_vars, fpack_vars, par_vars, stream_vars, cache_vars>>
AdvNext ==
    \/ AdvInflate /\ AdvOthers
    \/ AdvInflateStream /\ AdvOthers
InitAdv == AdvInit /\ PaethIdle /\ FilterIdle /\ InterlaceIdle /\ ChunkIdle /\ MapIdle /\ CodecIdle /\ IdatIdle /\ ScaleIdle /\ GrayIdle /\ NormIdle /\ HandlerIdle /\ StatsIdle /\ FpackIdle /\ ParIdle /\ StreamIdle /\ CacheIdle
SpecAdv == InitAdv /\ [][AdvNext]_vars

HandlerOthers ==
    UNCHANGED <<paeth_vars, filter_vars, interlace_vars, chunk_vars, map_vars, codec_vars, idat_vars, scale_vars, gray_vars, norm_vars, adv_vars, stats_vars, fpack_vars, par_vars, stream_vars, cache_vars>>
HandlerNext ==
    \/ HandlerWithMaxRetries /\ HandlerOthers
    \/ HandlerSetRecoveryStrategy /\ HandlerOthers
    \/ HandlerHandleError /\ HandlerOthers
InitHandler == HandlerInit /\ PaethIdle /\ FilterIdle /\ InterlaceIdle /\ ChunkIdle /\ MapIdle /\ CodecIdle /\ IdatIdle /\ ScaleIdle /\ GrayIdle /\ NormIdle /\ AdvIdle /\ StatsIdle /\ FpackIdle /\ ParIdle /\ StreamIdle /\ CacheIdle
SpecHandler == InitHandler /\ [][HandlerNext]_vars

StatsOthers ==
    UNCHANGED <<paeth_vars, filter_vars, interlace_vars, chunk_vars, map_vars, codec_vars, idat_vars, scale_vars, gray_vars, norm_vars, adv_vars, handler_vars, fpack_vars, par_vars, stream_vars, cache_vars>>
StatsNext == GetInterlaceStats /\ StatsOthers
InitStats == StatsInit /\ PaethIdle /\ FilterIdle /\ InterlaceIdle /\ ChunkIdle /\ MapIdle /\ CodecIdle /\ IdatIdle /\ ScaleIdle /\ GrayIdle /\ NormIdle /\ AdvIdle /\ HandlerIdle /\ FpackIdle /\ ParIdle /\ StreamIdle /\ CacheIdle
SpecStats == InitStats /\ [][StatsNext]_vars

FpackOthers ==
    UNCHANGED <<paeth_vars, filter_vars, interlace_vars, chunk_vars, map_vars, codec_vars, idat_vars, scale_vars, gray_vars, norm_vars, adv_vars, handler_vars, stats_vars, par_vars, stream_vars, cache_vars>>
FpackNext ==
    \/ PackFilters /\ FpackOthers
    \/ UnpackFilters /\ FpackOthers
InitFpack == FpackInit /\ PaethIdle /\ FilterIdle /\ InterlaceIdle /\ ChunkIdle /\ MapIdle /\ CodecIdle /\ IdatIdle /\ ScaleIdle /\ GrayIdle /\ NormIdle /\ AdvIdle /\ HandlerIdle /\ StatsIdle /\ ParIdle /\ StreamIdle /\ CacheIdle
SpecFpack == InitFpack /\ [][FpackNext]_vars

ParOthers ==
    UNCHANGED <<paeth_vars, filter_vars, interlace_vars, chunk_vars, map_vars, codec_vars, idat_vars, scale_vars, gray_vars, norm_vars, adv_vars, handler_vars, stats_vars, fpack_vars, stream_vars, cache_vars>>
ParNext ==
    \/ ParSpawn /\ ParOthers
    \/ \E k \in DOMAIN rworkers : ParWorkerRow(k) /\ ParOthers
    \/ \E k \in DOMAIN rworkers : ParWorkerSend(k) /\ ParOthers
    \/ ParJoin /\ ParOthers
    \/ ParProcessFilters /\ ParOthers
InitPar == ParInit /\ PaethIdle /\ FilterIdle /\ InterlaceIdle /\ ChunkIdle /\ MapIdle /\ CodecIdle /\ IdatIdle /\ ScaleIdle /\ GrayIdle /\ NormIdle /\ AdvIdle /\ HandlerIdle /\ StatsIdle /\ FpackIdle /\ StreamIdle /\ CacheIdle
SpecPar == InitPar /\ [][ParNext]_vars

StreamOthers ==
    UNCHANGED <<paeth_vars, filter_vars, interlace_vars, chunk_vars, map_vars, codec_vars, idat_vars, scale_vars, gray_vars, norm_vars, adv_vars, handler_vars, stats_vars, fpack_vars, par_vars, cache_vars>>
StreamNext ==
    \/ StreamWrite /\ StreamOthers
    \/ StreamRead /\ StreamOthers
    \/ StreamResume /\ StreamOthers
    \/ \E t \in BagToSet(uthreads) : ThreadCollect(t) /\ StreamOthers
    \/ \E t \in BagToSet(uthreads) : ThreadServe(t) /\ StreamOthers
    \/ \E t \in BagToSet(uthreads) : ThreadPutBack(t) /\ StreamOthers
    \/ \E t \in BagToSet(uthreads) : ThreadUpdate(t) /\ StreamOthers
InitStream == StreamInit /\ PaethIdle /\ FilterIdle /\ InterlaceIdle /\ ChunkIdle /\ MapIdle /\ CodecIdle /\ IdatIdle /\ ScaleIdle /\ GrayIdle /\ NormIdle /\ AdvIdle /\ HandlerIdle /\ StatsIdle /\ FpackIdle /\ ParIdle /\ CacheIdle
SpecStream == InitStream /\ [][StreamNext]_vars
\* the threads are scheduled: while a thread runs, a thread takes a step
StreamFairness == WF_vars(ThreadStep /\ StreamOthers)
SpecStreamFair == SpecStream /\ StreamFairness

CacheOthers ==
    UNCHANGED <<paeth_vars, filter_vars, interlace_vars, chunk_vars, map_vars, codec_vars, idat_vars, scale_vars, gray_vars, norm_vars, adv_vars, handler_vars, stats_vars, fpack_vars, par_vars, stream_vars>>
CacheNext ==
    \/ CacheResult /\ CacheOthers
    \/ CacheSet /\ CacheOthers
InitCache == CacheInit /\ PaethIdle /\ FilterIdle /\ InterlaceIdle /\ ChunkIdle /\ MapIdle /\ CodecIdle /\ IdatIdle /\ ScaleIdle /\ GrayIdle /\ NormIdle /\ AdvIdle /\ HandlerIdle /\ StatsIdle /\ FpackIdle /\ ParIdle /\ StreamIdle
SpecCache == InitCache /\ [][CacheNext]_vars

---------------------------------------------------------------------------
(* The row the claim is about: row row_index of the buffer *)

FilteredRow(d) ==
    LET bpr == fctx.width * fctx.bytes_per_pixel
    IN  Slice(d, fctx.row_index * bpr, fctx.row_index * bpr + bpr)

\* C8: paeth(a, b, c) returns the one of a, b, c nearest to p = a + b - c,
\* a before b before c on ties; paeth(0,0,0) = 0, and when |p-a| = |p-b|
\* is the least distance the result is a.
PaethNearest(r, a, b, c) ==
    LET p  == a + b - c
        da == Abs(p - a)
        db == Abs(p - b)
        dc == Abs(p - c)
        m  == IF da <= db /\ da <= dc THEN da ELSE IF db <= dc THEN db ELSE dc
    IN  /\ r \in {a, b, c}
        /\ Abs(p - r) = m
        /\ (da = m => r = a)
        /\ (da > m /\ db = m => r = b)
        /\ (da = db /\ da = m => r = a)
        /\ (a = 0 /\ b = 0 /\ c = 0 => r = 0)

C8_PaethTieBreak ==
    pres # NoResult =>
        /\ PaethNearest(pres, pa, pb, pc)
        /\ PaethNearest(pres_std, pa, pb, pc)

\* a tie between a and c at the least distance, a and c different bytes
C8_Witness ==
    /\ pres # NoResult
    /\ pa # pc
    /\ Abs(pb - pc) = Abs(pa + pb - 2 * pc)
    /\ Abs(pb - pc) <= Abs(pa - pc)
    /\ pres = pa

\* C2: reverse(f, apply(f, R, P), P) = R for every filter type, row and
\* prior row.
C2_FilterRoundTrip ==
    fstage = "applied_reversed" => FilteredRow(fdata) = FilteredRow(forig)

\* the pass size the Adam7 geometry calls for: ceil((size - offset) / step)
\* when size > offset, else 0
CeilExtent(size, offset, step) ==
    IF size > offset THEN (size - offset + step - 1) \div step ELSE 0

\* the pixels pass `pass` is scattered to: (x_offset + px * x_step,
\* y_offset + py * y_step) over the pass's computed width and height
PassTargets(width, height, pass) ==
    LET sz  == get_interlace_pass_size(width, height, pass)
        off == get_interlace_offsets(pass)
    IN  {<<off[1] + px * off[3], off[2] + py * off[4]>> :
            px \in 0..(sz[1] - 1), py \in 0..(sz[2] - 1)}

\* C3: for W, H in {1, 5, 8, 13, 64} the target coordinates of the 7
\* passes cover every pixel of the W x H grid exactly once.
C3_Adam7Coverage ==
    (istage = "sized" /\ iw \in CoverageDims /\ ih \in CoverageDims) =>
        \A x \in 0..(iw - 1), y \in 0..(ih - 1) :
            Cardinality({p \in 0..6 : <<x, y>> \in PassTargets(iw, ih, p)}) = 1

\* C9: every pass is ceil((width - x_offset) / x_step) wide when
\* width > x_offset and 0 otherwise, its height likewise; an 8 x 8 image
\* has 7 non-empty passes, 1x1, 1x1, 2x1, 2x2, 4x2, 4x4, 8x4.
C9_PassSize ==
    istage = "sized" =>
        /\ \A p \in 0..6 :
              get_interlace_pass_size(iw, ih, p) =
                  <<CeilExtent(iw, get_interlace_offsets(p)[1], get_interlace_offsets(p)[3]),
                    CeilExtent(ih, get_interlace_offsets(p)[2], get_interlace_offsets(p)[4])>>
        /\ (iw = 8 /\ ih = 8) =>
              [i \in 1..Len(ipassinfo) |-> <<ipassinfo[i].width, ipassinfo[i].height>>]
                  = << <<1, 1>>, <<1, 1>>, <<2, 1>>, <<2, 2>>, <<4, 2>>, <<4, 4>>, <<8, 4>> >>

\* C10: interlace_image returns 7 pass buffers and deinterlace_passes of
\* them is the original image buffer.
C10_InterlaceRoundTrip ==
    istage = "done" => (Len(ipasses) = 7 /\ irecon = iimg)

\* C4: a stream written chunk by chunk parses; with any single bit of a
\* chunk's type field or data field inverted, parsing fails with the CRC
\* mismatch error.
C4_BitFlipDetected ==
    cstage = "parsed" =>
        /\ cflip = NoFlip => cresult.ok
        /\ cflip.field \in {"type", "data"} =>
               ~cresult.ok /\ cresult.err = InvalidCRC

C4_WitnessType ==
    cstage = "parsed" /\ cflip.field = "type" /\ cresult.err = InvalidCRC

\* some pixel of the palette image indexes past the palette's last entry
IndexOutOfRange ==
    /\ bm.color_type = COLORTYPE_PALETTE_COLOR
    /\ bm.palette # <<>>
    /\ \E i \in 1..Len(bdata) : bdata[i] >= Len(bm.palette[1]) \div 3

\* C7: converting a palette image with a pixel index at or past the number
\* of palette entries fails with the palette index error in each of the
\* conversions; none of them puts out pixels for it.
C7_PaletteIndexRejected ==
    IndexOutOfRange =>
        /\ bmapped # MapNone => ~bmapped.ok /\ bmapped.err = PaletteOutOfBounds
        /\ bdepal = NoOutput
        /\ brgba = NoOutput


---------------------------------------------------------------------------
(* Encoding and decoding as a whole *)

\* options a PNG header can carry, and a chunk size chunks() accepts
ValidOptions(o) ==
    /\ o.width > 0
    /\ o.height > 0
    /\ o.bit_depth \in LegalDepths(o.color_type)
    /\ o.deflate_chunk_size > 0

\* the pixel buffer holds every row of the image
BufferFits(o, data) ==
    Len(data) >= o.height * PNGPacker_calculate_bytes_per_row(o)

\* C6: in a pack call the options and the size of the pixel buffer have been
\* validated before the first output byte (signature or chunk) is written, and
\* a call that fails has written no output byte
C6_ValidateBeforeWrite ==
    /\ koutput # <<>> => ValidOptions(koptions) /\ BufferFits(koptions, kdata)
    /\ kstage \in {"failed", "panicked"} => koutput = <<>>

\* C5: a parse that returns an error leaves nothing of the failed input with
\* the caller: the parser is as it was before the call
C5_AllOrNothing ==
    cstage = "parsed" /\ ~cresult.ok => cparser = PNGChunkParser_new

\* C1: packing valid options with a pixel buffer of the matching size
\* succeeds, and parsing the bytes it returns succeeds and yields the same
\* width, height, colour type, bit depth and pixel values
C1_RoundTrip ==
    (ValidOptions(koptions)
       /\ Len(kdata) = koptions.height * PNGPacker_calculate_bytes_per_row(koptions))
    => /\ kstage \notin {"failed", "panicked"}
       /\ kstage = "parsed" =>
             /\ kparse.ok
             /\ kpng.width = koptions.width
             /\ kpng.height = koptions.height
             /\ kpng.color_type = koptions.color_type
             /\ kpng.bit_depth = koptions.bit_depth
             /\ kpng.pixel_data = <<kdata>>

---------------------------------------------------------------------------
(* IDAT chunks *)

\* the payloads of the chunks added, one after the other
RECURSIVE Joined(_, _)
Joined(chunks, k) == IF k > Len(chunks) THEN <<>> ELSE chunks[k] \o Joined(chunks, k + 1)

\* C11: whatever the chunk size, the IDAT payloads in stream order make up
\* the compressed stream, and inflating them gives what inflating the stream
\* carried in a single chunk gives
C11_SplitHasNoEffect ==
    zstage = "inflated" =>
        /\ Joined(zinflate.chunks, 1) = zstream
        /\ zresult \in ChunkedInflate_inflate_all(
                            ChunkedInflate_add_chunk(ChunkedInflate_new, zstream))

---------------------------------------------------------------------------
(* Order and presence of chunks *)

TypeAt(k) == cchunks[k].type
Positions(type) == {k \in 1..Len(cchunks) : TypeAt(k) = type}

\* the header is a palette image's
PaletteImage ==
    cchunks # <<>> /\ TypeAt(1) = TYPE_IHDR /\ cchunks[1].data[10] = COLORTYPE_PALETTE_COLOR

\* IHDR is not the first chunk, or an IDAT comes before the PLTE of a
\* palette image
OutOfOrder ==
    /\ cchunks # <<>>
    /\ \/ TypeAt(1) # TYPE_IHDR
       \/ /\ PaletteImage
          /\ \E i \in Positions(TYPE_IDAT), p \in Positions(TYPE_PLTE) : i < p

\* C12: a stream whose IHDR is not the first chunk, or whose PLTE and IDAT
\* are not in the order PNG requires, is not parsed: parse returns an error
C12_OrderRejected ==
    (cstage = "parsed" /\ cflip = NoFlip /\ OutOfOrder) => ~cresult.ok

\* a mandatory chunk is missing
MissingChunk ==
    \/ Positions(TYPE_IHDR) = {}
    \/ Positions(TYPE_IDAT) = {}
    \/ Positions(TYPE_IEND) = {}
    \/ PaletteImage /\ Positions(TYPE_PLTE) = {}

\* C13: a stream that lacks IHDR, PLTE of a palette image, every IDAT or
\* IEND is never parsed successfully
C13_MissingRejected ==
    (cstage = "parsed" /\ cflip = NoFlip /\ MissingChunk) => ~cresult.ok

\* C14: bytes appended after IEND change neither whether the parse succeeds
\* nor what it leaves in the parser
C14_StopsAtIend ==
    (/\ cstage = "parsed"
     /\ cflip.field = "trailing"
     /\ cchunks # <<>>
     /\ TypeAt(Len(cchunks)) = TYPE_IEND)
    => LET r == PNGChunkParser_parse(PNGChunkParser_new, Slice(cstream, 0, cflip.pos))
       IN  cresult = [ok |-> r.ok, err |-> r.err] /\ cparser = r.self

---------------------------------------------------------------------------
(* Headers *)

\* the header pack writes for its options
HeaderOf(o) ==
    [width |-> o.width, height |-> o.height, bit_depth |-> o.bit_depth,
     color_type |-> o.color_type, compression_method |-> 0, filter_method |-> 0,
     interlace_method |-> 0]

\* C15: with a bit depth and colour type that PNG does not pair, or a width
\* or height of 0, pack writes no IHDR chunk and returns no file, and a
\* stream with such a header is not parsed successfully
C15_InvalidHeaderRejected ==
    ~LegalHeader(HeaderOf(koptions)) =>
        /\ Len(koutput) <= Len(PNG_SIGNATURE)
        /\ ~kresult.ok
        /\ kstage = "done" => ~PNGChunkParser_parse(PNGChunkParser_new, koutput).ok

---------------------------------------------------------------------------
(* Rescaling *)

\* round(v * 255 / (2^N - 1)), halves rounded up
Round8(depth, v) == (2 * v * 255 + (2 ^ depth - 1)) \div (2 * (2 ^ depth - 1))

\* C16: an N-bit sample v rescaled to 8 bits is round(v * 255 / (2^N - 1)),
\* by scale_pixel_value and by scale_depth, for every legal N and every v
C16_Rescale ==
    /\ spixel # 0 - 1 => spixel = Round8(sdepth, svalue)
    /\ sscaled # NotScaled => sscaled = Returned(<<Round8(sdepth, svalue)>>)

---------------------------------------------------------------------------
(* Greyscale *)

\* sample c (0 = R, 1 = G, 2 = B) of the pixel
PixelSample(c) ==
    IF gdepth = 16 THEN gpixel[2 * c + 1] * 256 + gpixel[2 * c + 2] ELSE gpixel[c + 1]

\* round(0.299 R + 0.587 G + 0.114 B), halves rounded up
RoundLuma ==
    (299 * PixelSample(0) + 587 * PixelSample(1) + 114 * PixelSample(2) + 500) \div 1000

\* C17: an RGB or RGBA pixel converted to greyscale is
\* round(0.299 R + 0.587 G + 0.114 B), rounded half up, by both conversions
C17_LumaRounded ==
    /\ gadv # NotConverted => gadv = Ok(SampleBytes(RoundLuma, gdepth))
    /\ gconv # NotConverted => gconv = Ok(SampleBytes(RoundLuma, gdepth))

---------------------------------------------------------------------------
(* Colour type conversions *)

\* the conversions of the table: greyscale <-> RGB, RGB <-> RGBA,
\* greyscale <-> greyscale with alpha, palette -> RGBA, RGB or RGBA ->
\* greyscale, and a colour type to itself
SupportedPairs ==
    { <<COLORTYPE_GRAYSCALE, COLORTYPE_COLOR>>, <<COLORTYPE_COLOR, COLORTYPE_GRAYSCALE>>,
      <<COLORTYPE_COLOR, COLORTYPE_COLOR_ALPHA>>, <<COLORTYPE_COLOR_ALPHA, COLORTYPE_COLOR>>,
      <<COLORTYPE_GRAYSCALE, COLORTYPE_ALPHA>>, <<COLORTYPE_ALPHA, COLORTYPE_GRAYSCALE>>,
      <<COLORTYPE_PALETTE_COLOR, COLORTYPE_COLOR_ALPHA>>,
      <<COLORTYPE_COLOR_ALPHA, COLORTYPE_GRAYSCALE>> }
      \cup { <<t, t>> : t \in ColorTypes }

\* the formats convert_to_rgba has an arm for, palette images left aside
\* (none is given a palette here)
ConvertibleToRgba ==
    <<nself.input_color_type, nself.input_bit_depth>> \in
          { <<COLORTYPE_GRAYSCALE, 8>>, <<COLORTYPE_ALPHA, 8>>, <<COLORTYPE_COLOR, 8>>,
            <<COLORTYPE_COLOR_ALPHA, 8>>, <<COLORTYPE_COLOR, 16>>,
            <<COLORTYPE_COLOR_ALPHA, 16>> }

\* C18: a conversion between two colour types outside the table returns an
\* error, and a buffer convert_to_rgba cannot convert is not answered with
\* pixels
C18_UnsupportedRejected ==
    /\ (nresult # NotConverted
          /\ <<nself.input_color_type, nself.output_color_type>> \notin SupportedPairs)
        => ~nresult.ok
    /\ ~ConvertibleToRgba => nrgba = NoOutput

\* what the last call returns when made on a new AdvancedInflate with the
\* same options
FirstCallResults ==
    { o.result :
        o \in IF afn = "inflate"
              THEN AdvancedInflate_inflate(AdvancedInflate_new(aself.options), ainput)
              ELSE AdvancedInflate_inflate_stream(AdvancedInflate_new(aself.options),
                                                  ainput) }

\* C19: the result of a decompress call depends only on the call's own
\* inputs: the call returns what the same call returns on a decompressor that
\* has made no call before, whatever calls came earlier.
C19_Stateless == afn # "none" => aresult \in FirstCallResults

\* C20: when the operation handed to handle_error returns an error, the call
\* returns that first error and has run the operation once; no call runs the
\* operation more than once.
C20_NoRetry ==
    hoperation # <<>> =>
        /\ hruns = 1
        /\ ~hoperation[1].ok => hresult = hoperation[1]

\* C21: the seven pass sizes reported by get_interlace_stats sum to
\* width * height.
C21_PassSizesSum ==
    tstats # NoStats =>
        /\ Len(tstats.pass_sizes) = 7
        /\ SumSeq(tstats.pass_sizes) = tw * th

\* the rows of a stream reconstructed by adding: row y is its stored bytes
\* plus, byte by byte and mod 256, the predictor of the row's filter type
RECURSIVE Reconstructed(_, _, _, _, _)
Reconstructed(data, types, bytes_per_row, bpp, prior) ==
    IF types = <<>> THEN <<>>
    ELSE LET row == ReconRow(Head(types), Slice(data, 0, bytes_per_row), prior, bpp, <<>>)
         IN  row \o Reconstructed(Slice(data, bytes_per_row, Len(data)), Tail(types),
                                  bytes_per_row, bpp, row)

\* C22: decoding reconstructs every row by adding the predictor of the filter
\* type in the row's leading byte to the stored bytes, mod 256.
C22_DecodeAdds ==
    qunpacked # NotPacked =>
        qunpacked = Ok(Reconstructed(qdata, qtypes, qwidth * qbpp, qbpp,
                                     [x \in 1..(qwidth * qbpp) |-> 0]))

\* the forward-filtered candidate of a row for filter type ft: each byte
\* minus, mod 256, the predictor taken from the unfiltered row and prior row
ForwardFiltered(ft, row, prior, bpp) ==
    [x \in 1..Len(row) |->
        LET a == IF x > bpp THEN row[x - bpp] ELSE 0
            b == prior[x]
            c == IF x > bpp THEN prior[x - bpp] ELSE 0
            pred == IF ft = FILTER_SUB THEN a
                    ELSE IF ft = FILTER_UP THEN b
                    ELSE IF ft = FILTER_AVERAGE THEN (a + b) \div 2
                    ELSE IF ft = FILTER_PAETH THEN paeth_predictor(a, b, c)
                    ELSE 0
        IN  wrapping_sub(row[x], pred)]

\* the sum of the absolute values of the bytes read as signed
RECURSIVE SignedScore(_)
SignedScore(bytes) ==
    IF bytes = <<>> THEN 0
    ELSE (IF Head(bytes) >= 128 THEN 256 - Head(bytes) ELSE Head(bytes))
         + SignedScore(Tail(bytes))

\* row y of the image handed to the packer; the row before it, zeros for y = 0
ImageRow(y) ==
    IF y < 0 THEN [x \in 1..(qwidth * qbpp) |-> 0]
    ELSE Slice(qdata, y * qwidth * qbpp, (y + 1) * qwidth * qbpp)

\* C23: for each row the packer emits the filter-type byte of a candidate
\* whose score, the sum of the absolute values of its bytes read as signed,
\* is minimal among the five forward-filtered candidates, followed by exactly
\* that candidate's bytes.
C23_MinimalCandidate ==
    qpacked # NotPacked =>
        /\ qpacked.ok
        /\ Len(qpacked.data) = qheight * (qwidth * qbpp + 1)
        /\ \A y \in 0..(qheight - 1) :
              LET bpr  == qwidth * qbpp
                  ft   == At(qpacked.data, y * (bpr + 1))
                  sent == Slice(qpacked.data, y * (bpr + 1) + 1, (y + 1) * (bpr + 1))
              IN  /\ ft \in FilterTypes
                  /\ sent = ForwardFiltered(ft, ImageRow(y), ImageRow(y - 1), qbpp)
                  /\ \A g \in FilterTypes :
                        SignedScore(sent) <=
                            SignedScore(ForwardFiltered(g, ImageRow(y), ImageRow(y - 1), qbpp))

\* the rows of worker k
RowsOf(k) == rworkers[k].start_row .. (rworkers[k].end_row - 1)

\* the row of byte i of the buffer (i from 1)
RowOfByte(i) == (i - 1) \div (rctx.width * rctx.bytes_per_pixel)

\* C24: the workers' row ranges are contiguous, disjoint and together all the
\* rows; a worker writes only bytes of its own rows; no byte is written by two
\* workers; the caller has its result only when every worker has ended.
C24_DisjointRanges ==
    rstage \in {"spawned", "returned"} =>
        /\ UNION {RowsOf(k) : k \in DOMAIN rworkers} = 0..(rctx.height - 1)
        /\ \A k, j \in DOMAIN rworkers : k # j => RowsOf(k) \cap RowsOf(j) = {}
        /\ \A i \in DOMAIN rwriters :
              /\ Cardinality(rwriters[i]) <= 1
              /\ \A k \in rwriters[i] : RowOfByte(i) \in RowsOf(k)
        /\ rstage = "returned" => \A k \in DOMAIN rworkers : rworkers[k].done

\* C24 witness: the call has returned, there were two workers or more, and a
\* worker has written bytes of the buffer
C24_Witness ==
    /\ rstage = "returned"
    /\ Len(rworkers) >= 2
    /\ \E i \in DOMAIN rwriters : rwriters[i] # {}

\* the rows of a buffer filtered one after the other from row y to the last,
\* each in the whole buffer: the result and the buffer it leaves
RECURSIVE SequentialRows(_, _)
SequentialRows(data, y) ==
    IF y >= rctx.height THEN [result |-> Ok(<<>>), data |-> data]
    ELSE LET r == filter_func(rctx.op, rctx.filter_type, data,
                              FilterContext(rctx.width, rctx.height,
                                            rctx.bytes_per_pixel, y))
         IN  IF ~r.ok THEN [result |-> r, data |-> data]
             ELSE SequentialRows(r.data, y + 1)

\* C25: for every thread count and every order in which the workers run and
\* end, filtering in parallel returns what filtering the rows one after the
\* other from the first to the last returns: the same bytes in the same row
\* order, or the same error.
C25_ParallelIsSequential ==
    /\ rstage # "panicked"
    /\ rstage = "returned" =>
          /\ rresult = SequentialRows(rorig, 0).result
          /\ rdata = SequentialRows(rorig, 0).data
    /\ rpacked # NotReturned =>
          rpacked = FilterPacker_pack_filters(rorig, rctx.width, rctx.height,
                                              rctx.bytes_per_pixel)

\* the bytes handed to the callbacks of the reads up to read id, in the order
\* the reads were issued
RECURSIVE DeliveredUpTo(_)
DeliveredUpTo(id) ==
    IF id = 0 THEN <<>>
    ELSE DeliveredUpTo(id - 1)
         \o CollectBuffers([k \in 1..Len(SelectSeq(udelivered, LAMBDA c : c.id = id)) |->
                               SelectSeq(udelivered, LAMBDA c : c.id = id)[k].data])

Delivered == DeliveredUpTo(MaxIssued)

\* C26: the bytes handed to the read callbacks, in the order the reads were
\* issued, are a prefix of the bytes written, in write order.
C26_DeliveredIsPrefix ==
    /\ Len(Delivered) <= Len(uwritten)
    /\ Delivered = SubSeq(uwritten, 1, Len(Delivered))

\* C27: every processing thread ends: from some point on no thread runs.
C27_ThreadsTerminate == <>[](uthreads = EmptyBag)

\* C28: when no processing thread runs, the buffered size is the number of
\* bytes written and not yet handed to a callback.
C28_BufferedIsUndelivered ==
    (uwritten # <<>> /\ uthreads = EmptyBag) =>
        ubuffered = Len(uwritten) - Len(Delivered)

\* the error types with a recovery strategy
Configured == { hself.recovery_strategies[i][1] : i \in DOMAIN hself.recovery_strategies }

\* C29: handle_error runs the operation at most max_retries + 1 times; it
\* returns the value of the first run that succeeds, and runs the operation
\* no more after it; it runs the operation once when the type of its error
\* has no recovery strategy.
C29_BoundedRetries ==
    hoperation # <<>> =>
        /\ hruns >= 1
        /\ hruns <= hself.max_retries + 1
        /\ \A k \in 1..(hruns - 1) : ~hoperation[k].ok
        /\ hoperation[hruns].ok => hresult = hoperation[hruns]
        /\ (~hoperation[1].ok /\ hoperation[1].error.variant \notin Configured) => hruns = 1

\* C29 witness: an operation that failed, was run again and succeeded
C29_Witness ==
    /\ hoperation # <<>>
    /\ hruns > 1
    /\ hresult.ok

\* C30: when the cache is full and a result is stored under a new key, the
\* entry that was inserted first is removed and every other entry is kept.
C30_OldestRemoved ==
    (xlast.full /\ xlast.new /\ xlast.oldest # "none") =>
        /\ xlast.oldest \notin DOMAIN xself.cache
        /\ \A k \in (DOMAIN xlast.before) \ {xlast.oldest} :
              k \in DOMAIN xself.cache /\ xself.cache[k] = xlast.before[k]

=============================================================================
